---- MODULE Spec2Model ----
(***************************************************************************)
(* Model of the AIGrader validation core and of the command-line grading   *)
(* run that uses it.                                                       *)
(*                                                                         *)
(*   aigrader.SAVE/src/aigrader/score_parser.py  parse_and_validate        *)
(*   aigrader/src/aigrader/idempotency.py        fingerprint and marker    *)
(*   aigrader/src/aigrader/cli/main.py           _grade_one_submission     *)
(*   aigrader/src/aigrader/cli/main.py           grade_one_assignment      *)
(*   aigrader/src/aigrader/grader.py             revision metrics,         *)
(*                                               previous attempt          *)
(*   aigrader/src/aigrader/batch.py              BatchGrader               *)
(*   aigrader/src/aigrader/canvas/client.py      CanvasClient._request     *)
(*   aigrader/src/aigrader/textutil.py           html_to_text, word_count  *)
(*                                                                         *)
(* Python values are modelled as records tagged by their type.  A float or *)
(* int is an exact decimal [m, t]: m counts thousandths, t counts units of *)
(* 1e-10 inside one thousandth, so the tolerances 1e-9 and 1e-6 of the     *)
(* validator are 10 and 10000 units of t.  The inputs keep at least 1e-10  *)
(* away from a tolerance bound, where the rounding of a double (about      *)
(* 1e-15 on these values) cannot change a comparison.  Text is a sequence  *)
(* of characters, so that strip() and the substring search are computed.   *)
(***************************************************************************)
EXTENDS Integers, Sequences, FiniteSets, TLC

VARIABLES
    model_text,     \* validator input: the raw text of the text generator
    run,            \* validator input: the GradeRun carrying the rubric
    outcome,        \* what parse_and_validate returned or raised
    vpc,            \* "ready" before the call, "done" after it
    prev,           \* the previous call of the same caller, if any
    submission,     \* Canvas: the student's submission object
    comments,       \* Canvas: the submission's comments, oldest first
    changes,        \* Canvas: how often the submission object has changed
    runs,           \* the invocations of _grade_one_submission
    assessment,     \* round trip: the AssessmentResult that is serialized
    states,         \* idempotency: the submission objects given to the functions
    fingerprints,   \* idempotency: their fingerprints, once computed
    assessed,       \* idempotency: what already_assessed returned, once called
    texts,          \* revision metrics: the previous and the current text
    metrics,        \* revision metrics: the metrics and labels computed so far
    students,       \* grade_one_assignment: the loop over the user ids
    batch,          \* BatchGrader: the loop over the assignments
    picked,         \* _pick_previous_attempt_obj: its arguments and its result
    request,        \* CanvasClient._request: the loop over the attempts
    preflight       \* grade_assignment: the submission and the GradeRun built from it

vvars == <<model_text, run, outcome, vpc, prev>>

gvars == <<submission, comments, changes, runs>>

(* the variables of the checks of single functions *)
pvars == <<assessment, states, fingerprints, assessed, texts, metrics>>

(* the variables of the loops and of the preflight *)
lvars == <<students, batch, picked, request, preflight>>

vars == <<model_text, run, outcome, vpc, prev, submission, comments, changes, runs,
          assessment, states, fingerprints, assessed, texts, metrics,
          students, batch, picked, request, preflight>>

(***************************************************************************)
(* Numbers                                                                 *)
(***************************************************************************)
TinyPerMilli == 10 * 1000 * 1000

Dec(m, t) == [m |-> m, t |-> t]

DecNorm(m, t) ==
    IF t >= TinyPerMilli THEN Dec(m + 1, t - TinyPerMilli)
    ELSE IF t < 0 THEN Dec(m - 1, t + TinyPerMilli)
    ELSE Dec(m, t)

DecAdd(a, b) == DecNorm(a.m + b.m, a.t + b.t)

DecSub(a, b) == DecNorm(a.m - b.m, a.t - b.t)

DecLess(a, b) == a.m < b.m \/ (a.m = b.m /\ a.t < b.t)

DecNeg(a) == DecNorm(0 - a.m, 0 - a.t)

DecAbs(a) == IF a.m < 0 THEN DecNeg(a) ELSE a

Zero == Dec(0, 0)

(***************************************************************************)
(* Python / JSON values                                                    *)
(***************************************************************************)
PyInt(m) == [j |-> "num", ty |-> "int", v |-> Dec(m, 0)]
PyFloat(m, t) == [j |-> "num", ty |-> "float", v |-> Dec(m, t)]
PyBigInt == [j |-> "bigint"]     \* an int beyond the range of a float
PyNaN == [j |-> "nan"]
PyInf == [j |-> "inf"]
PyBool == [j |-> "bool"]
PyNone == [j |-> "null"]
PyList == [j |-> "list"]
PyStr(s) == [j |-> "str", s |-> s]
PyDict(d) == [j |-> "dict", d |-> d]
JsonObject(pairs) == [j |-> "object", pairs |-> pairs]

isinstance_int_float(val) == val.j \in {"num", "bigint", "nan", "inf", "bool"}

isinstance_float(val) == val.j \in {"nan", "inf"} \/ (val.j = "num" /\ val.ty = "float")

(***************************************************************************)
(* Outcomes of a call: a returned value or a raised exception.  msg names  *)
(* the message template of the raise statement, path the field it cites,   *)
(* names the identifiers it lists.                                         *)
(***************************************************************************)
Return(val) == [ok |-> TRUE, val |-> val]

Raise(exc, msg, path, names) ==
    [ok |-> FALSE, exc |-> exc, msg |-> msg, path |-> path, names |-> names]

JSONParseError(msg, path, names) == Raise("JSONParseError", msg, path, names)

(***************************************************************************)
(* Text                                                                    *)
(***************************************************************************)
isspace(c) == c \in {" ", "\n", "\t"}

RECURSIVE lstrip(_)
lstrip(s) == IF s # <<>> /\ isspace(Head(s)) THEN lstrip(Tail(s)) ELSE s

RECURSIVE rstrip(_)
rstrip(s) ==
    IF s # <<>> /\ isspace(s[Len(s)]) THEN rstrip(SubSeq(s, 1, Len(s) - 1)) ELSE s

(* faulty variant: only the leading whitespace is removed *)
strip_leading_only(s) == lstrip(s)

strip(s) == rstrip(lstrip(s))

(***************************************************************************)
(* json.loads: an object of the text is a sequence of key/value pairs; the *)
(* dict it becomes keeps, for a repeated key, the value written last.      *)
(***************************************************************************)
PairKeys(pairs) == {pairs[i][1] : i \in 1..Len(pairs)}

LastIndex(pairs, k) ==
    CHOOSE i \in 1..Len(pairs) :
        /\ pairs[i][1] = k
        /\ \A n \in 1..Len(pairs) : pairs[n][1] = k => n <= i

RECURSIVE json_loads(_)
json_loads(v) ==
    IF v.j = "object"
    THEN PyDict([k \in PairKeys(v.pairs) |-> json_loads(v.pairs[LastIndex(v.pairs, k)][2])])
    ELSE v

(***************************************************************************)
(* score_parser.py: parsing and schema validation                          *)
(***************************************************************************)
_parse_json_strict(text) ==
    IF text.k # "str" \/ text.body.d = "empty"
    THEN JSONParseError("Model output was empty or not a string.", <<>>, {})
    ELSE IF text.body.d = "bad"
    THEN JSONParseError("Invalid JSON from model", <<>>, {})
    ELSE LET parsed == json_loads(text.body.val)
         IN  IF parsed.j # "dict"
             THEN JSONParseError("Top-level JSON must be an object (dictionary).", <<>>, {})
             ELSE Return(parsed)

TopLevelRequired == {"overall_score", "overall_comment", "criteria"}

(* faulty variant: unexpected top-level keys are let through *)
_validate_top_level_missing_only(obj) ==
    LET keys == DOMAIN obj.d
        missing == TopLevelRequired \ keys
    IN  IF missing # {}
        THEN JSONParseError("Missing top-level key(s)", <<>>, missing)
        ELSE IF obj.d["criteria"].j # "dict"
        THEN JSONParseError("criteria must be an object mapping criterion_id -> {score, comment}.",
                            <<"criteria">>, {})
        ELSE Return(PyNone)

_validate_top_level(obj) ==
    LET keys == DOMAIN obj.d
        missing == TopLevelRequired \ keys
        extra == keys \ TopLevelRequired
    IN  IF missing # {}
        THEN JSONParseError("Missing top-level key(s)", <<>>, missing)
        ELSE IF extra # {}
        THEN JSONParseError("Unexpected top-level key(s)", <<>>, extra)
        ELSE IF obj.d["criteria"].j # "dict"
        THEN JSONParseError("criteria must be an object mapping criterion_id -> {score, comment}.",
                            <<"criteria">>, {})
        ELSE Return(PyNone)

(* The rubric map is a dict in insertion order: order lists each id at its  *)
(* first occurrence, pts holds the points of its last occurrence; points    *)
(* that float() cannot convert count as 0.0.                                *)
RECURSIVE FirstOccurrences(_, _)
FirstOccurrences(criteria, seen) ==
    IF criteria = <<>> THEN <<>>
    ELSE IF Head(criteria).id \in seen THEN FirstOccurrences(Tail(criteria), seen)
    ELSE <<Head(criteria).id>> \o
         FirstOccurrences(Tail(criteria), seen \cup {Head(criteria).id})

LastCriterion(criteria, cid) ==
    criteria[CHOOSE i \in 1..Len(criteria) :
                /\ criteria[i].id = cid
                /\ \A n \in 1..Len(criteria) : criteria[n].id = cid => n <= i]

_rubric_criteria_map(criteria) ==
    LET ids == {criteria[i].id : i \in 1..Len(criteria)}
    IN  [order |-> FirstOccurrences(criteria, {}),
         pts |-> [cid \in ids |->
                    LET c == LastCriterion(criteria, cid)
                    IN  IF c.points.j = "num" THEN c.points.v ELSE Zero]]

(* faulty variant: unexpected criterion ids are let through *)
_validate_criteria_keys_missing_only(criteria_obj, rubric_map) ==
    LET missing == (DOMAIN rubric_map.pts) \ (DOMAIN criteria_obj.d)
    IN  IF missing # {}
        THEN JSONParseError("criteria is missing rubric criterion id(s)", <<"criteria">>, missing)
        ELSE Return(PyNone)

(* faulty variant: unexpected ids are reported before missing ones *)
_validate_criteria_keys_extra_first(criteria_obj, rubric_map) ==
    LET missing == (DOMAIN rubric_map.pts) \ (DOMAIN criteria_obj.d)
        extra == (DOMAIN criteria_obj.d) \ (DOMAIN rubric_map.pts)
    IN  IF extra # {}
        THEN JSONParseError("criteria contains unexpected criterion id(s)", <<"criteria">>, extra)
        ELSE IF missing # {}
        THEN JSONParseError("criteria is missing rubric criterion id(s)", <<"criteria">>, missing)
        ELSE Return(PyNone)

_validate_criteria_keys(criteria_obj, rubric_map) ==
    LET got == DOMAIN criteria_obj.d
        expected == DOMAIN rubric_map.pts
        missing == expected \ got
        extra == got \ expected
    IN  IF missing # {}
        THEN JSONParseError("criteria is missing rubric criterion id(s)", <<"criteria">>, missing)
        ELSE IF extra # {}
        THEN JSONParseError("criteria contains unexpected criterion id(s)", <<"criteria">>, extra)
        ELSE Return(PyNone)

ItemRequired == {"score", "comment"}

_validate_criterion_item(cid, item) ==
    IF item.j # "dict"
    THEN JSONParseError("criteria.{cid} must be an object with keys {score, comment}.",
                        <<"criteria", cid>>, {})
    ELSE LET keys == DOMAIN item.d
             missing == ItemRequired \ keys
             extra == keys \ ItemRequired
         IN  IF missing # {}
             THEN JSONParseError("criteria.{cid} missing key(s)", <<"criteria", cid>>, missing)
             ELSE IF extra # {}
             THEN JSONParseError("criteria.{cid} has unexpected key(s)", <<"criteria", cid>>, extra)
             ELSE Return(PyNone)

(***************************************************************************)
(* score_parser.py: type helpers and numeric validation                    *)
(***************************************************************************)
(* faulty variant: a value that is no string is turned into one *)
_as_string_coerces(val, path) ==
    IF val.j # "str" THEN Return(<<"1">>) ELSE Return(val.s)

_as_string(val, path) ==
    IF val.j # "str"
    THEN JSONParseError("{path} must be a string.", path, {})
    ELSE Return(val.s)

(* faulty variant: a boolean passes as the int it is in Python *)
_as_number_bool_is_int(val, path) ==
    IF val.j = "bool" THEN Return(Dec(1000, 0))
    ELSE IF isinstance_int_float(val)
    THEN IF isinstance_float(val) /\ val.j \in {"nan", "inf"}
         THEN JSONParseError("{path} must be a finite number.", path, {})
         ELSE IF val.j = "bigint"
         THEN Raise("OverflowError", "int too large to convert to float", path, {})
         ELSE Return(val.v)
    ELSE JSONParseError("{path} must be a number.", path, {})

(* faulty variant: the number is cut to thousandths *)
_as_number_truncates(val, path) ==
    LET number == _as_number_bool_is_int(val, path)
    IN  IF val.j = "bool"
        THEN JSONParseError("{path} must be a number, not boolean.", path, {})
        ELSE IF number.ok THEN Return(Dec(number.val.m, 0)) ELSE number

(* float(val) of an int beyond the float range raises OverflowError.       *)
_as_number(val, path) ==
    IF val.j = "bool"
    THEN JSONParseError("{path} must be a number, not boolean.", path, {})
    ELSE IF isinstance_int_float(val)
    THEN IF isinstance_float(val) /\ val.j \in {"nan", "inf"}
         THEN JSONParseError("{path} must be a finite number.", path, {})
         ELSE IF val.j = "bigint"
         THEN Raise("OverflowError", "int too large to convert to float", path, {})
         ELSE Return(val.v)
    ELSE JSONParseError("{path} must be a number.", path, {})

ScoreEpsilon == Dec(0, 10)          \* 1e-9

(* faulty variant: no tolerance above the maximum *)
_validate_score_range_no_epsilon(cid, score, max_points) ==
    IF DecLess(score, Zero)
    THEN JSONParseError("criteria.{cid}.score must be >= 0.", <<"criteria", cid, "score">>, {})
    ELSE IF DecLess(max_points, score)
    THEN JSONParseError("criteria.{cid}.score exceeds max points",
                        <<"criteria", cid, "score">>, {})
    ELSE Return(PyNone)

_validate_score_range(cid, score, max_points) ==
    IF DecLess(score, Zero)
    THEN JSONParseError("criteria.{cid}.score must be >= 0.", <<"criteria", cid, "score">>, {})
    ELSE IF DecLess(DecAdd(max_points, ScoreEpsilon), score)
    THEN JSONParseError("criteria.{cid}.score exceeds max points",
                            <<"criteria", cid, "score">>, {})
    ELSE Return(PyNone)

SumTolerance == Dec(0, 10000)       \* 1e-6

(* faulty variant: no tolerance, the overall score must equal the sum *)
_validate_overall_score_exact(overall_score, score_sum) ==
    IF overall_score # score_sum
    THEN JSONParseError("overall_score does not equal sum of criterion scores",
                        <<"overall_score">>, {})
    ELSE Return(PyNone)

_validate_overall_score(overall_score, score_sum) ==
    IF DecLess(SumTolerance, DecAbs(DecSub(overall_score, score_sum)))
    THEN JSONParseError("overall_score does not equal sum of criterion scores",
                        <<"overall_score">>, {})
    ELSE Return(PyNone)

(***************************************************************************)
(* score_parser.py: parse_and_validate                                     *)
(***************************************************************************)
CriterionAssessment(score, comment) == [score |-> score, comment |-> comment]

AssessmentResult(overall_score, overall_comment, criteria) ==
    [overall_score |-> overall_score, overall_comment |-> overall_comment,
     criteria |-> criteria]

(* One pass of the for loop over rubric_map.items(); assessed are the ids  *)
(* already stored in criteria_assessments.                                 *)
ValidateOneCriterion(cid, max_points, item) ==
    LET shape == _validate_criterion_item(cid, item)
    IN  IF ~shape.ok THEN shape
        ELSE LET score == _as_number(item.d["score"], <<"criteria", cid, "score">>)
             IN  IF ~score.ok THEN score
                 ELSE LET range == _validate_score_range(cid, score.val, max_points)
                      IN  IF ~range.ok THEN range
                          ELSE LET str == _as_string(item.d["comment"],
                                                     <<"criteria", cid, "comment">>)
                               IN  IF ~str.ok THEN str
                                   ELSE IF strip(str.val) = <<>>
                                   THEN JSONParseError(
                                            "criteria.{cid}.comment must be a non-empty string.",
                                            <<"criteria", cid, "comment">>, {})
                                   ELSE Return(CriterionAssessment(score.val, strip(str.val)))

RECURSIVE CriteriaLoop(_, _, _, _, _)
CriteriaLoop(order, rubric_map, criteria_obj, criteria_assessments, score_sum) ==
    IF order = <<>>
    THEN Return([criteria_assessments |-> criteria_assessments, score_sum |-> score_sum])
    ELSE LET cid == Head(order)
             one == ValidateOneCriterion(cid, rubric_map.pts[cid], criteria_obj.d[cid])
         IN  IF ~one.ok THEN one
             ELSE CriteriaLoop(Tail(order), rubric_map, criteria_obj,
                               criteria_assessments @@ (cid :> one.val),
                               DecAdd(score_sum, one.val.score))

EmptyDict == [x \in {} |-> x]

(* faulty variant: the sum is checked before overall_comment *)
OverallChecks_sum_first(obj, loop) ==
    LET overall_score == _as_number(obj.d["overall_score"], <<"overall_score">>)
    IN  IF ~overall_score.ok THEN overall_score
        ELSE LET sum == _validate_overall_score(overall_score.val, loop.score_sum)
             IN  IF ~sum.ok THEN sum
                 ELSE LET str == _as_string(obj.d["overall_comment"], <<"overall_comment">>)
                      IN  IF ~str.ok THEN str
                          ELSE IF strip(str.val) = <<>>
                          THEN JSONParseError("overall_comment must be a non-empty string.",
                                              <<"overall_comment">>, {})
                          ELSE Return(AssessmentResult(overall_score.val, strip(str.val),
                                                       loop.criteria_assessments))

OverallChecks(obj, loop) ==
    LET overall_score == _as_number(obj.d["overall_score"], <<"overall_score">>)
    IN  IF ~overall_score.ok THEN overall_score
        ELSE LET str == _as_string(obj.d["overall_comment"], <<"overall_comment">>)
             IN  IF ~str.ok THEN str
                 ELSE IF strip(str.val) = <<>>
                 THEN JSONParseError("overall_comment must be a non-empty string.",
                                     <<"overall_comment">>, {})
                 ELSE LET sum == _validate_overall_score(overall_score.val, loop.score_sum)
                      IN  IF ~sum.ok THEN sum
                          ELSE Return(AssessmentResult(overall_score.val, strip(str.val),
                                                       loop.criteria_assessments))

parse_and_validate(text, r) ==
    IF r.rubric.isNone \/ r.rubric.criteria = <<>>
    THEN Raise("RubricNotFoundError", "Cannot validate: rubric snapshot is missing or empty.",
               <<>>, {})
    ELSE LET parsed == _parse_json_strict(text)
         IN  IF ~parsed.ok THEN parsed
             ELSE LET obj == parsed.val
                      top == _validate_top_level(obj)
                  IN  IF ~top.ok THEN top
                      ELSE LET rubric_map == _rubric_criteria_map(r.rubric.criteria)
                               keys == _validate_criteria_keys(obj.d["criteria"], rubric_map)
                           IN  IF ~keys.ok THEN keys
                               ELSE LET loop == CriteriaLoop(rubric_map.order, rubric_map,
                                                             obj.d["criteria"], EmptyDict, Zero)
                                    IN  IF ~loop.ok THEN loop
                                        ELSE OverallChecks(obj, loop.val)

(***************************************************************************)
(* Inputs of the validator                                                 *)
(*                                                                         *)
(* A rubric has up to MaxCriteria criteria.  A raw text is either not a    *)
(* JSON object at all, or a payload that differs from the full-marks       *)
(* payload of the rubric (the one the mock mode of the command line        *)
(* writes) in at most MaxEdits fields; an edited field takes any of the    *)
(* other values listed for it, well-formed or not.                         *)
(***************************************************************************)
MaxCriteria == 2
MaxEdits == 2

CritIds == <<"c1", "c2", "c3", "c4">>

Ten == Dec(10000, 0)
Five == Dec(5000, 0)

Float(d) == [j |-> "num", ty |-> "float", v |-> d]

RubricCriterion(id, points) == [id |-> id, points |-> points]

RubricSnapshot(points_total, criteria) ==
    [isNone |-> FALSE, points_total |-> points_total, criteria |-> criteria]

NoRubric == [isNone |-> TRUE, points_total |-> Zero, criteria |-> <<>>]

(* the first criterion is worth 10, the others 5 *)
CriteriaTenFive(n) ==
    [i \in 1..n |-> RubricCriterion(CritIds[i], Float(IF i = 1 THEN Ten ELSE Five))]

CriteriaAllFive(n) == [i \in 1..n |-> RubricCriterion(CritIds[i], Float(Five))]

RECURSIVE PointsSum(_)
PointsSum(criteria) ==
    IF criteria = <<>> THEN Zero
    ELSE DecAdd(IF Head(criteria).points.j = "num" THEN Head(criteria).points.v ELSE Zero,
                PointsSum(Tail(criteria)))

Rubrics ==
    {NoRubric}
    \cup {RubricSnapshot(PointsSum(CriteriaTenFive(n)), CriteriaTenFive(n)) : n \in 0..MaxCriteria}
    \* points_total is informational and may differ from the sum of the points
    \cup {RubricSnapshot(Dec(100000, 0), CriteriaAllFive(n)) : n \in 1..MaxCriteria}
    \* a criterion id listed twice, and points that are not a number
    \cup {RubricSnapshot(Ten, <<RubricCriterion("c1", Float(Five)),
                                RubricCriterion("c1", Float(Ten))>>),
          RubricSnapshot(Five, <<RubricCriterion("c1", PyStr(<<"x">>))>>)}

GradeRun(rubric) == [rubric |-> rubric]

Ok == <<"o", "k">>
OkPadded == <<" ", "o", "k", "\n">>
Blank == <<" ", "\n">>

TwoWords == <<"o", " ", "k">>
TwoWordsPadded == <<"\t", "o", " ", "k", " ">>

OtherComments ==
    {PyStr(OkPadded), PyStr(TwoWordsPadded), PyStr(<<>>), PyStr(Blank), PyInt(1000), PyNone}

BadScoreTypes ==
    {PyBool, PyNaN, PyInf, PyBigInt, PyStr(<<"3">>), PyNone, PyList, JsonObject(<<>>)}

Item(score, comment) == JsonObject(<<<<"score", score>>, <<"comment", comment>>>>)

(* full marks, as in the mock mode *)
FullItem(max) == Item(Float(max), PyStr(Ok))

(* other scores of a criterion worth max: 0, 3, max + 5e-10, max + 9e-10,  *)
(* max + 1.1e-9, max + 0.01, -0.001, and values that are no finite number  *)
OtherScores(max) ==
    {PyInt(0), PyInt(3000), Float(DecAdd(max, Dec(0, 5))), Float(DecAdd(max, Dec(0, 9))),
     Float(DecAdd(max, Dec(0, 11))), Float(DecAdd(max, Dec(10, 0))), Float(Dec(-1, 0))}
    \cup BadScoreTypes

OtherItems(max) ==
    {Item(sc, PyStr(Ok)) : sc \in OtherScores(max)}
    \cup {Item(PyInt(2000), c) : c \in OtherComments \ {PyStr(OkPadded), PyStr(<<>>)}}
    \cup {PyStr(Ok),
          JsonObject(<<<<"score", PyInt(2000)>>>>),
          JsonObject(<<<<"comment", PyStr(Ok)>>>>),
          JsonObject(<<<<"score", PyInt(2000)>>, <<"comment", PyStr(Ok)>>,
                       <<"note", PyStr(Ok)>>>>),
          JsonObject(<<<<"score", PyBool>>, <<"note", PyStr(Ok)>>>>)}

(* the sum of the numeric scores the payload carries for the rubric ids *)
ItemScore(item) ==
    IF item.j = "object" /\ "score" \in PairKeys(item.pairs)
    THEN LET sc == item.pairs[LastIndex(item.pairs, "score")][2]
         IN  IF sc.j = "num" THEN sc.v ELSE Zero
    ELSE Zero

RECURSIVE ItemsSum(_, _)
ItemsSum(ids, items) ==
    IF ids = <<>> THEN Zero
    ELSE DecAdd(ItemScore(items[Head(ids)]), ItemsSum(Tail(ids), items))

(* other overall scores: the sum + 1e-7, - 9.999e-7, + 1.0001e-6,          *)
(* - 1.0001e-6, + 0.01, and values that are no finite number               *)
OtherOverallScores(sum) ==
    {Float(DecAdd(sum, Dec(0, 1000))), Float(DecSub(sum, Dec(0, 9999))),
     Float(DecAdd(sum, Dec(0, 10001))), Float(DecSub(sum, Dec(0, 10001))),
     Float(DecAdd(sum, Dec(10, 0)))}
    \cup (BadScoreTypes \ {PyList, JsonObject(<<>>)})

OtherTopShapes == {"reordered", "no overall_score", "no overall_comment", "no criteria",
                   "extra", "missing and extra"}

OtherKeyShapes == {"reversed", "not an object", "drop first", "drop last", "add bogus",
                   "drop first add bogus"}

Reverse(seq) == [i \in 1..Len(seq) |-> seq[Len(seq) + 1 - i]]

Bogus == <<"_bogus", Item(PyInt(2000), PyStr(Ok))>>

CriteriaValue(shape, ids, items) ==
    LET pairs == [i \in 1..Len(ids) |-> <<ids[i], items[ids[i]]>>]
        rest == IF pairs = <<>> THEN <<>> ELSE Tail(pairs)
    IN  CASE shape = "exact" -> JsonObject(pairs)
          [] shape = "reversed" -> JsonObject(Reverse(pairs))
          [] shape = "not an object" -> PyList
          [] shape = "drop first" -> JsonObject(rest)
          [] shape = "drop last" ->
                JsonObject(IF pairs = <<>> THEN <<>> ELSE SubSeq(pairs, 1, Len(pairs) - 1))
          [] shape = "add bogus" -> JsonObject(pairs \o <<Bogus>>)
          [] shape = "drop first add bogus" -> JsonObject(rest \o <<Bogus>>)

TopLevelValue(shape, overall_score, overall_comment, criteria) ==
    LET os == <<"overall_score", overall_score>>
        oc == <<"overall_comment", overall_comment>>
        cr == <<"criteria", criteria>>
        extra == <<"notes", PyStr(Ok)>>
    IN  CASE shape = "exact" -> JsonObject(<<os, oc, cr>>)
          \* another key order, and a key written twice: the last value counts
          [] shape = "reordered" -> JsonObject(<<cr, <<"overall_comment", PyNone>>, oc, os>>)
          [] shape = "no overall_score" -> JsonObject(<<oc, cr>>)
          [] shape = "no overall_comment" -> JsonObject(<<os, cr>>)
          [] shape = "no criteria" -> JsonObject(<<os, oc>>)
          [] shape = "extra" -> JsonObject(<<os, oc, cr, extra>>)
          [] shape = "missing and extra" -> JsonObject(<<os, cr, extra>>)

Text(pad, body) == [k |-> "str", pad |-> pad, body |-> body]

JsonText(val) == Text(FALSE, [d |-> "json", val |-> val])

(* texts that are not a JSON object *)
OtherTexts ==
    {[k |-> "none"]}
    \cup {Text(pad, [d |-> "empty"]) : pad \in BOOLEAN}
    \cup {Text(pad, [d |-> "bad"]) : pad \in BOOLEAN}
    \cup {JsonText(val) : val \in {PyInt(5000), PyList, PyNaN, PyStr(Ok), PyNone}}

Positions(ids) ==
    {<<"top">>, <<"overall_score">>, <<"overall_comment">>, <<"keys">>}
    \cup {<<"item", ids[i]>> : i \in 1..Len(ids)}

EditSets(ids, maxEdits) == {e \in SUBSET Positions(ids) : Cardinality(e) <= maxEdits}

Pick(pos, edits, usual, others) == IF pos \in edits THEN others ELSE {usual}

RECURSIVE ItemMaps(_, _, _)
ItemMaps(ids, pts, edits) ==
    IF ids = <<>> THEN {EmptyDict}
    ELSE LET cid == Head(ids)
         IN  {(cid :> it) @@ rest :
                 it \in Pick(<<"item", cid>>, edits, FullItem(pts[cid]), OtherItems(pts[cid])),
                 rest \in ItemMaps(Tail(ids), pts, edits)}

(* text is a payload for the rubric with at most maxEdits edited fields *)
DrawPayload(text, rubric, maxEdits) ==
    LET rubric_map == _rubric_criteria_map(rubric.criteria)
    IN  \E edits \in EditSets(rubric_map.order, maxEdits) :
        \E items \in ItemMaps(rubric_map.order, rubric_map.pts, edits) :
        \E top \in Pick(<<"top">>, edits, "exact", OtherTopShapes) :
        \E os \in Pick(<<"overall_score">>, edits,
                       Float(ItemsSum(rubric_map.order, items)),
                       OtherOverallScores(ItemsSum(rubric_map.order, items))) :
        \E oc \in Pick(<<"overall_comment">>, edits, PyStr(Ok), OtherComments) :
        \E keys \in Pick(<<"keys">>, edits, "exact", OtherKeyShapes) :
            text = JsonText(TopLevelValue(top, os, oc,
                                          CriteriaValue(keys, rubric_map.order, items)))

DrawText(text, rubric, maxEdits) ==
    \/ text \in OtherTexts
    \/ DrawPayload(text, rubric, maxEdits)

(***************************************************************************)
(* The validator as a state machine: a call of parse_and_validate on an    *)
(* input drawn at the start and, in SpecCalls, a second call by the same   *)
(* caller on another text; prev keeps the text and the outcome of the      *)
(* first call.                                                             *)
(***************************************************************************)
NoOutcome == Raise("", "", <<>>, {})

NoSubmission == [j |-> "null"]

NoAssessment == [j |-> "null"]

FingerprintIdle == states = <<>> /\ fingerprints = <<>> /\ assessed = <<>>

MetricsIdle == texts = <<>> /\ metrics = <<>>

Idle == [pc |-> "idle"]

LoopsIdle ==
    students = Idle /\ batch = Idle /\ picked = Idle /\ request = Idle /\ preflight = Idle

PureIdle == assessment = NoAssessment /\ FingerprintIdle /\ MetricsIdle /\ LoopsIdle

NoPrev == [called |-> FALSE, text |-> [k |-> "none"], outcome |-> NoOutcome]

ValidatorIdle ==
    /\ model_text = [k |-> "none"]
    /\ run = GradeRun(NoRubric)
    /\ outcome = NoOutcome
    /\ prev = NoPrev
    /\ vpc = "idle"

CanvasIdle == submission = NoSubmission /\ comments = <<>> /\ changes = 0 /\ runs = <<>>

UsableRubrics == {r \in Rubrics : ~r.isNone /\ r.criteria # <<>>}

InitValidate ==
    /\ run \in {GradeRun(r) : r \in Rubrics}
    /\ DrawText(model_text, run.rubric, MaxEdits)
    /\ outcome = NoOutcome
    /\ prev = NoPrev
    /\ vpc = "ready"
    /\ submission = NoSubmission
    /\ comments = <<>>
    /\ changes = 0
    /\ runs = <<>>
    /\ PureIdle

InitCalls ==
    /\ run \in {GradeRun(r) : r \in UsableRubrics}
    /\ DrawText(model_text, run.rubric, 1)
    /\ outcome = NoOutcome
    /\ prev = NoPrev
    /\ vpc = "ready"
    /\ submission = NoSubmission
    /\ comments = <<>>
    /\ changes = 0
    /\ runs = <<>>
    /\ PureIdle

Validate ==
    /\ vpc = "ready"
    /\ outcome' = parse_and_validate(model_text, run)
    /\ vpc' = "done"
    /\ UNCHANGED <<model_text, run, prev, gvars, pvars, lvars>>

NextCall ==
    /\ vpc = "done"
    /\ ~prev.called
    /\ DrawText(model_text', run.rubric, 1)
    /\ prev' = [called |-> TRUE, text |-> model_text, outcome |-> outcome]
    /\ outcome' = NoOutcome
    /\ vpc' = "ready"
    /\ UNCHANGED <<run, gvars, pvars, lvars>>

NextValidate == Validate

NextCalls == Validate \/ NextCall

SpecValidate == InitValidate /\ [][NextValidate]_vars

SpecCalls == InitCalls /\ [][NextCalls]_vars


(***************************************************************************)
(* Round trip: an AssessmentResult that is consistent with the rubric is   *)
(* written as the JSON object of the wire contract, as json.dumps writes   *)
(* the mock assessment in cli/main.py (lines 321-334), and the text is     *)
(* given to parse_and_validate.                                            *)
(***************************************************************************)
ValidRubrics ==
    {r \in UsableRubrics :
        /\ \A i, k \in 1..Len(r.criteria) : r.criteria[i].id = r.criteria[k].id => i = k
        /\ \A i \in 1..Len(r.criteria) : r.criteria[i].points.j = "num"}

(* scores of a criterion worth max: 0, 1e-10, 3, max - 1e-10 and max *)
ConsistentScores(max) == {Zero, Dec(0, 1), Dec(3000, 0), DecSub(max, Dec(0, 1)), max}

ConsistentComments == {Ok, TwoWords}

RECURSIVE ConsistentCriteria(_, _)
ConsistentCriteria(ids, pts) ==
    IF ids = <<>> THEN {EmptyDict}
    ELSE {(Head(ids) :> CriterionAssessment(sc, co)) @@ rest :
             sc \in ConsistentScores(pts[Head(ids)]), co \in ConsistentComments,
             rest \in ConsistentCriteria(Tail(ids), pts)}

RECURSIVE SumOfScores(_, _)
SumOfScores(ids, criteria) ==
    IF ids = <<>> THEN Zero
    ELSE DecAdd(criteria[Head(ids)].score, SumOfScores(Tail(ids), criteria))

(* json.dumps of the wire object; order is the order of the criteria keys *)
json_dumps(a, order) ==
    JsonText(JsonObject(<<
        <<"overall_score", Float(a.overall_score)>>,
        <<"overall_comment", PyStr(a.overall_comment)>>,
        <<"criteria",
          JsonObject([i \in 1..Len(order) |->
                        <<order[i], Item(Float(a.criteria[order[i]].score),
                                         PyStr(a.criteria[order[i]].comment))>>])>> >>))

InitRoundTrip ==
    /\ run \in {GradeRun(r) : r \in ValidRubrics}
    /\ LET rubric_map == _rubric_criteria_map(run.rubric.criteria)
       IN  \E criteria \in ConsistentCriteria(rubric_map.order, rubric_map.pts) :
           \E overall_comment \in ConsistentComments :
              assessment = AssessmentResult(SumOfScores(rubric_map.order, criteria),
                                            overall_comment, criteria)
    /\ model_text = [k |-> "none"]
    /\ outcome = NoOutcome
    /\ prev = NoPrev
    /\ vpc = "assessment"
    /\ submission = NoSubmission
    /\ comments = <<>>
    /\ changes = 0
    /\ runs = <<>>
    /\ FingerprintIdle
    /\ MetricsIdle
    /\ LoopsIdle

Serialize ==
    /\ vpc = "assessment"
    /\ LET order == _rubric_criteria_map(run.rubric.criteria).order
       IN  \E written \in {order, Reverse(order)} :
              model_text' = json_dumps(assessment, written)
    /\ vpc' = "ready"
    /\ UNCHANGED <<run, outcome, prev, gvars, pvars, lvars>>

NextRoundTrip == Serialize \/ Validate

SpecRoundTrip == InitRoundTrip /\ [][NextRoundTrip]_vars

(***************************************************************************)
(* Idempotency (idempotency.py).  A string is a sequence of symbols: the   *)
(* literals of the format are one symbol each, values are spelled out.     *)
(***************************************************************************)
FINGERPRINT_PREFIX == "aigrader_fingerprint:"

(* hashlib.sha256(s.encode("utf-8")).hexdigest() on the bodies of the model *)
_sha256_text(s) ==
    CASE s = <<>> -> "e3b0c44298fc1c149afbf4c8996fb92427ae41e4649b934ca495991b7852b855"
      [] s = <<"a">> -> "ca978112ca1bbdcafac231b39a23dc4da786eff8147c4e72b9807785afee48bb"
      [] s = <<"b">> -> "3e23e8160039594a33894f6564e1b1348bbd7a0088d42c4acb73eeaed59c009d"

(* Python truth value, x or y, and the text an f-string gives a value *)
PyListOf(items) == [j |-> "list", items |-> items]

truthy(val) ==
    CASE val.j = "null" -> FALSE
      [] val.j = "str" -> val.s # <<>>
      [] val.j = "num" -> val.v # Zero
      [] val.j = "list" -> val.items # <<>>
      [] OTHER -> TRUE

py_or(x, y) == IF truthy(x) THEN x ELSE y

Digits == <<"0", "1", "2", "3", "4", "5", "6", "7", "8", "9">>

py_format(val) ==
    CASE val.j = "str" -> val.s
      [] val.j = "num" -> <<Digits[(val.v.m \div 1000) + 1]>>
      [] val.j = "null" -> <<"None">>

(* faulty variant: the body is left out of the fingerprint *)
compute_submission_fingerprint_without_body(sub) ==
    LET attempt == sub.attempt
        submitted_at == py_or(py_or(sub.submitted_at, sub.posted_at), PyStr(<<>>))
        updated_at == py_or(sub.updated_at, PyStr(<<>>))
    IN  <<"attempt=">> \o (IF attempt.j = "null" THEN <<"?">> ELSE py_format(attempt))
            \o <<"|submitted_at=">> \o py_format(submitted_at)
            \o <<"|updated_at=">> \o py_format(updated_at)

(* faulty variant: an attempt of 0 is taken for an absent one *)
compute_submission_fingerprint_attempt_or(sub) ==
    LET attempt == sub.attempt
        submitted_at == py_or(py_or(sub.submitted_at, sub.posted_at), PyStr(<<>>))
        updated_at == py_or(sub.updated_at, PyStr(<<>>))
        body == py_or(sub.body, PyStr(<<>>))
        body_hash == _sha256_text(IF body.j = "str" THEN body.s ELSE <<>>)
    IN  <<"attempt=">> \o (IF ~truthy(attempt) THEN <<"?">> ELSE py_format(attempt))
            \o <<"|submitted_at=">> \o py_format(submitted_at)
            \o <<"|updated_at=">> \o py_format(updated_at)
            \o <<"|body_sha256=", body_hash>>

compute_submission_fingerprint(sub) ==
    LET attempt == sub.attempt
        submitted_at == py_or(py_or(sub.submitted_at, sub.posted_at), PyStr(<<>>))
        updated_at == py_or(sub.updated_at, PyStr(<<>>))
        body == py_or(sub.body, PyStr(<<>>))
        body_hash == _sha256_text(IF body.j = "str" THEN body.s ELSE <<>>)
    IN  <<"attempt=">> \o (IF attempt.j = "null" THEN <<"?">> ELSE py_format(attempt))
            \o <<"|submitted_at=">> \o py_format(submitted_at)
            \o <<"|updated_at=">> \o py_format(updated_at)
            \o <<"|body_sha256=", body_hash>>

(* needle in txt *)
py_in(needle, txt) ==
    \E k \in 0..(Len(txt) - Len(needle)) : SubSeq(txt, k + 1, k + Len(needle)) = needle

(* faulty variant: the marker is never found *)
already_assessed_never(submission_with_comments, fingerprint) == FALSE

(* faulty variant: the comment has to be the marker and nothing else *)
already_assessed_whole_comment(submission_with_comments, fingerprint) ==
    LET comments_list == py_or(submission_with_comments.submission_comments, PyListOf(<<>>))
        needle == <<FINGERPRINT_PREFIX, " ">> \o fingerprint
    IN  IF comments_list.j # "list" THEN FALSE
        ELSE \E k \in 1..Len(comments_list.items) :
                LET c == comments_list.items[k]
                IN  /\ c.j = "dict"
                    /\ LET txt == py_or(c.d.comment, PyStr(<<>>))
                       IN  txt.j = "str" /\ needle = txt.s

(* a dict without the key "comment" is one whose comment is None, as       *)
(* dict.get gives it                                                       *)
already_assessed(submission_with_comments, fingerprint) ==
    LET comments_list == py_or(submission_with_comments.submission_comments, PyListOf(<<>>))
        needle == <<FINGERPRINT_PREFIX, " ">> \o fingerprint
    IN  IF comments_list.j # "list" THEN FALSE
        ELSE \E k \in 1..Len(comments_list.items) :
                LET c == comments_list.items[k]
                IN  /\ c.j = "dict"
                    /\ LET txt == py_or(c.d.comment, PyStr(<<>>))
                       IN  txt.j = "str" /\ py_in(needle, txt.s)

(* faulty variant: the marker is written without the space after the colon *)
get_fingerprint_marker_without_space(fingerprint) == <<FINGERPRINT_PREFIX>> \o fingerprint

get_fingerprint_marker(fingerprint) == <<FINGERPRINT_PREFIX, " ">> \o fingerprint

(***************************************************************************)
(* The grading run (cli/main.py, _grade_one_submission).  Each run is a    *)
(* process that takes one step per call to Canvas or to the text           *)
(* generator; runs of the same submission may interleave, and Canvas may   *)
(* change the submission between any two steps.                            *)
(***************************************************************************)
MaxRuns == 2
MaxChanges == 1

Runs == 1..MaxRuns

Submission(attempt, submitted_at, posted_at, updated_at, body) ==
    [attempt |-> attempt, submitted_at |-> submitted_at, posted_at |-> posted_at,
     updated_at |-> updated_at, body |-> body]

T1 == PyStr(<<"t", "1">>)
T2 == PyStr(<<"t", "2">>)

(* a first attempt, its resubmission, and a submission without attempt     *)
(* number or submission time, before and after its grade was posted        *)
SubmissionStates ==
    {Submission(PyInt(1000), T1, PyNone, T1, PyStr(<<"a">>)),
     Submission(PyInt(2000), T2, PyNone, T2, PyStr(<<"b">>)),
     Submission(PyNone, PyNone, PyNone, T1, PyNone),
     Submission(PyNone, PyNone, T2, T1, PyNone)}

Args(force, post_comment, print_prompts, comment_html, use_llm) ==
    [force |-> force, post_comment |-> post_comment, print_prompts |-> print_prompts,
     comment_html |-> comment_html, use_llm |-> use_llm]

GradedRubric == RubricSnapshot(Ten, CriteriaTenFive(1))

(* json.dumps of the mock assessment: full marks on every criterion *)
MockText(rubric) ==
    LET rubric_map == _rubric_criteria_map(rubric.criteria)
        criteria_obj == [cid \in DOMAIN rubric_map.pts |-> FullItem(rubric_map.pts[cid])]
    IN  JsonText(TopLevelValue("exact", Float(PointsSum(rubric.criteria)), PyStr(Ok),
                               CriteriaValue("exact", rubric_map.order, criteria_obj)))

(* texts the generator returns: a valid assessment, one with a score above *)
(* the maximum, and one that is not JSON                                   *)
LLMTexts(rubric) ==
    LET rubric_map == _rubric_criteria_map(rubric.criteria)
        over == [cid \in DOMAIN rubric_map.pts |->
                    Item(Float(DecAdd(rubric_map.pts[cid], Dec(10, 0))), PyStr(Ok))]
    IN  {MockText(rubric),
         JsonText(TopLevelValue("exact", Float(PointsSum(rubric.criteria)), PyStr(Ok),
                                CriteriaValue("exact", rubric_map.order, over))),
         Text(FALSE, [d |-> "bad"])}

render_ai_assessment_comment(r, result) == <<"AI assessment">>

render_ai_assessment_comment_html(r, result) == <<"<h3>", "AI assessment", "</h3>">>

NoArgs == Args(FALSE, FALSE, FALSE, FALSE, FALSE)

NoSub == [attempt |-> PyNone, submitted_at |-> PyNone, posted_at |-> PyNone,
          updated_at |-> PyNone, body |-> PyNone, submission_comments |-> PyListOf(<<>>)]

IdleRun ==
    [pc |-> "idle", rc |-> -1, args |-> NoArgs, sub |-> NoSub, fp |-> <<>>,
     already |-> FALSE, raw_text |-> [k |-> "none"], result |-> NoOutcome,
     generated |-> FALSE, validated |-> FALSE, posted |-> FALSE]

Ended(i) == runs[i].pc \in {"returned", "raised"}

(* the run returns rc or raises: its locals are gone, and what it saw and  *)
(* did stays on record: the fingerprint, the submission fields, --force,   *)
(* and whether it generated, validated and posted                          *)
Finish(r, pc, rc) ==
    [IdleRun EXCEPT !.pc = pc, !.rc = rc, !.fp = r.fp,
                    !.args = [NoArgs EXCEPT !.force = r.args.force],
                    !.sub = [r.sub EXCEPT !.submission_comments = PyListOf(<<>>)],
                    !.generated = r.generated, !.validated = r.validated,
                    !.posted = r.posted]

InitGrade ==
    /\ submission \in SubmissionStates
    /\ comments = <<>>
    /\ changes = 0
    /\ runs = [i \in Runs |-> IdleRun]
    /\ run = GradeRun(GradedRubric)
    /\ model_text = [k |-> "none"]
    /\ outcome = NoOutcome
    /\ prev = NoPrev
    /\ vpc = "idle"
    /\ PureIdle

(* the invocation, once the runs before it have ended, with the preflight  *)
(* grade_assignment (line 212) and the fetch of the course prompt (line    *)
(* 223), either of which may raise.  The command line is an input of the   *)
(* run; each flag is drawn where the run first reads it: --force and       *)
(* --print-prompts here, --use-llm in Generate, --post-comment and         *)
(* --comment-html in PostComment.                                          *)
Begin(i) ==
    /\ runs[i].pc = "idle"
    /\ \A j \in 1..(i - 1) : Ended(j)
    /\ \/ \E force, print_prompts \in BOOLEAN :
             runs' = [runs EXCEPT ![i].pc = "fetch",
                                  ![i].args = Args(force, FALSE, print_prompts, FALSE, FALSE)]
       \/ runs' = [runs EXCEPT ![i] = Finish(runs[i], "raised", -1)]
    /\ UNCHANGED <<submission, comments, changes, vvars, pvars, lvars>>

(* lines 238-249: fetch the submission with its comments, compute the      *)
(* fingerprint, look for its marker, and skip when it is there             *)
FetchAndCheck(i) ==
    /\ runs[i].pc = "fetch"
    /\ LET args == runs[i].args
           sub == [attempt |-> submission.attempt,
                   submitted_at |-> submission.submitted_at,
                   posted_at |-> submission.posted_at,
                   updated_at |-> submission.updated_at,
                   body |-> submission.body,
                   submission_comments |->
                       PyListOf([k \in 1..Len(comments) |->
                                   PyDict([comment |-> PyStr(comments[k].comment)])])]
           fp == compute_submission_fingerprint(sub)
           already == already_assessed(sub, fp)
           fetched == [runs[i] EXCEPT !.sub = sub, !.fp = fp, !.already = already,
                                      !.pc = "prompts"]
       IN  IF already /\ ~args.force /\ ~args.print_prompts
           THEN runs' = [runs EXCEPT ![i] = Finish(fetched, "returned", 0)]
           ELSE runs' = [runs EXCEPT ![i] = fetched]
    /\ UNCHANGED <<submission, comments, changes, vvars, pvars, lvars>>

(* faulty variant: the second check of the marker, after the prompts are   *)
(* printed, is left out                                                    *)
BuildPrompts_without_second_check(i) ==
    /\ runs[i].pc = "prompts"
    /\ \/ runs' = [runs EXCEPT ![i] = Finish(runs[i], "raised", -1)]
       \/ runs' = [runs EXCEPT ![i].pc = "generate"]
    /\ UNCHANGED <<submission, comments, changes, vvars, pvars, lvars>>

(* lines 254-288: fetch the assignment description, which may raise, build *)
(* and print the prompts, and stop when already assessed and not forced    *)
BuildPrompts(i) ==
    /\ runs[i].pc = "prompts"
    /\ \/ runs' = [runs EXCEPT ![i] = Finish(runs[i], "raised", -1)]
       \/ IF runs[i].already /\ ~runs[i].args.force
          THEN runs' = [runs EXCEPT ![i] = Finish(runs[i], "returned", 0)]
          ELSE runs' = [runs EXCEPT ![i].pc = "generate"]
    /\ UNCHANGED <<submission, comments, changes, vvars, pvars, lvars>>

(* lines 295-334: the text generator is called and returns a text or       *)
(* raises, or the mock text is built                                       *)
Generate(i) ==
    /\ runs[i].pc = "generate"
    /\ \E use_llm \in BOOLEAN :
          \/ /\ use_llm
             /\ \E raw_text \in LLMTexts(run.rubric) :
                   runs' = [runs EXCEPT ![i].pc = "validate", ![i].raw_text = raw_text,
                                        ![i].args.use_llm = TRUE, ![i].generated = TRUE]
          \/ /\ use_llm
             /\ runs' = [runs EXCEPT ![i] =
                           Finish([runs[i] EXCEPT !.generated = TRUE], "raised", -1)]
          \/ /\ ~use_llm
             /\ runs' = [runs EXCEPT ![i].pc = "validate",
                                     ![i].raw_text = MockText(run.rubric),
                                     ![i].generated = TRUE]
    /\ UNCHANGED <<submission, comments, changes, vvars, pvars, lvars>>

(* faulty variant: the run goes on to the comment when the validation      *)
(* raised                                                                  *)
ParseAndValidate_goes_on(i) ==
    /\ runs[i].pc = "validate"
    /\ LET result == parse_and_validate(runs[i].raw_text, run)
       IN  runs' = [runs EXCEPT ![i].result = result, ![i].validated = TRUE, ![i].pc = "post"]
    /\ UNCHANGED <<submission, comments, changes, vvars, pvars, lvars>>

(* line 339: result = parse_and_validate(raw_text, run) *)
ParseAndValidate(i) ==
    /\ runs[i].pc = "validate"
    /\ LET result == parse_and_validate(runs[i].raw_text, run)
           validated == [runs[i] EXCEPT !.result = result, !.validated = TRUE, !.pc = "post"]
       IN  IF result.ok
           THEN runs' = [runs EXCEPT ![i] = validated]
           ELSE runs' = [runs EXCEPT ![i] = Finish(validated, "raised", -1)]
    /\ UNCHANGED <<submission, comments, changes, vvars, pvars, lvars>>

(* lines 348-376: with --post-comment the rendered assessment, followed by *)
(* the marker, is put on the submission, and the call to Canvas may raise; *)
(* then the run returns 0                                                  *)
PostComment(i) ==
    /\ runs[i].pc = "post"
    /\ \E post_comment, comment_html \in BOOLEAN :
          LET marker == get_fingerprint_marker(runs[i].fp)
              comment ==
                  IF comment_html
                  THEN render_ai_assessment_comment_html(run, runs[i].result.val)
                           \o <<"<p><em>">> \o marker \o <<"</em></p>">>
                  ELSE render_ai_assessment_comment(run, runs[i].result.val)
                           \o <<"\n\n">> \o marker
          IN  \/ /\ post_comment
                 /\ comments' = Append(comments, [comment |-> comment])
                 /\ runs' = [runs EXCEPT ![i] =
                               Finish([runs[i] EXCEPT !.posted = TRUE], "returned", 0)]
              \/ /\ post_comment
                 /\ comments' = comments
                 /\ runs' = [runs EXCEPT ![i] = Finish(runs[i], "raised", -1)]
              \/ /\ ~post_comment
                 /\ comments' = comments
                 /\ runs' = [runs EXCEPT ![i] = Finish(runs[i], "returned", 0)]
    /\ UNCHANGED <<submission, changes, vvars, pvars, lvars>>

(* Canvas: the student resubmits, or the grade is posted *)
SubmissionChanges ==
    /\ changes < MaxChanges
    /\ submission' \in SubmissionStates \ {submission}
    /\ changes' = changes + 1
    /\ UNCHANGED <<comments, runs, vvars, pvars, lvars>>

NextGrade ==
    \/ \E i \in Runs :
          \/ Begin(i)
          \/ FetchAndCheck(i)
          \/ BuildPrompts(i)
          \/ Generate(i)
          \/ ParseAndValidate(i)
          \/ PostComment(i)
    \/ SubmissionChanges

SpecGrade == InitGrade /\ [][NextGrade]_vars

(* the runs on a submission that Canvas leaves as it is *)
NextRegrade ==
    \E i \in Runs :
       \/ Begin(i)
       \/ FetchAndCheck(i)
       \/ BuildPrompts(i)
       \/ Generate(i)
       \/ ParseAndValidate(i)
       \/ PostComment(i)

SpecRegrade == InitGrade /\ [][NextRegrade]_vars

(* Two invocations of the command line at the same time, as a scheduled    *)
(* run and a run by hand: a run begins whatever the others are doing, and  *)
(* the steps of the runs interleave.  Nothing in _grade_one_submission     *)
(* holds a lock or reads the comments again before it posts.               *)
BeginAtAnyTime(i) ==
    /\ runs[i].pc = "idle"
    /\ \/ \E force, print_prompts \in BOOLEAN :
             runs' = [runs EXCEPT ![i].pc = "fetch",
                                  ![i].args = Args(force, FALSE, print_prompts, FALSE, FALSE)]
       \/ runs' = [runs EXCEPT ![i] = Finish(runs[i], "raised", -1)]
    /\ UNCHANGED <<submission, comments, changes, vvars, pvars, lvars>>

NextRace ==
    \E i \in Runs :
       \/ BeginAtAnyTime(i)
       \/ FetchAndCheck(i)
       \/ BuildPrompts(i)
       \/ Generate(i)
       \/ ParseAndValidate(i)
       \/ PostComment(i)

SpecRace == InitGrade /\ [][NextRace]_vars

(***************************************************************************)
(* The functions of idempotency.py on their own.  A caller holds one or    *)
(* two submission objects, computes the fingerprint of each, and asks      *)
(* already_assessed about the first object and its fingerprint.            *)
(***************************************************************************)
SubmissionWithComments(sub, submission_comments) ==
    [attempt |-> sub.attempt, submitted_at |-> sub.submitted_at,
     posted_at |-> sub.posted_at, updated_at |-> sub.updated_at,
     body |-> sub.body, submission_comments |-> submission_comments]

(* the values Canvas gives the fields, absent ones included, and a body    *)
(* that is not text                                                        *)
Attempts == {PyNone, PyInt(0), PyInt(1000), PyInt(2000)}
SubmittedAts == {PyNone, PyStr(<<>>), T1, T2}
PostedAts == {PyNone, T2}
UpdatedAts == {PyNone, T1}
Bodies == {PyNone, PyStr(<<>>), PyStr(<<"a">>), PyInt(5000)}

InitFingerprint ==
    /\ \E a1, a2 \in Attempts : \E s1, s2 \in SubmittedAts : \E p1, p2 \in PostedAts :
       \E u1, u2 \in UpdatedAts : \E b1, b2 \in Bodies :
          states = <<SubmissionWithComments(Submission(a1, s1, p1, u1, b1), PyNone),
                     SubmissionWithComments(Submission(a2, s2, p2, u2, b2), PyNone)>>
    /\ fingerprints = <<>>
    /\ assessed = <<>>
    /\ assessment = NoAssessment
    /\ MetricsIdle
    /\ LoopsIdle
    /\ model_text = [k |-> "none"]
    /\ run = GradeRun(NoRubric)
    /\ outcome = NoOutcome
    /\ prev = NoPrev
    /\ vpc = "idle"
    /\ submission = NoSubmission
    /\ comments = <<>>
    /\ changes = 0
    /\ runs = <<>>

ComputeFingerprints ==
    /\ states # <<>>
    /\ fingerprints = <<>>
    /\ fingerprints' = [k \in 1..Len(states) |-> compute_submission_fingerprint(states[k])]
    /\ UNCHANGED <<states, assessed, assessment, texts, metrics, vvars, gvars, lvars>>

AlreadyAssessed ==
    /\ fingerprints # <<>>
    /\ assessed = <<>>
    /\ assessed' = <<already_assessed(states[1], fingerprints[1])>>
    /\ UNCHANGED <<states, fingerprints, assessment, texts, metrics, vvars, gvars, lvars>>

MaxComments == 2

(* what the comment of an entry can be on a submission whose marker is     *)
(* own, other being the marker of another submission state: an assessment  *)
(* with the marker at its end or inside HTML, the marker alone, the        *)
(* marker of the other state, the marker without its space, without its    *)
(* prefix or without its last part, an empty text, None and a number       *)
CommentValues(own, other) ==
    {PyStr(<<"AI assessment", "\n\n">> \o own),
     PyStr(<<"<p><em>">> \o own \o <<"</em></p>">>),
     PyStr(own),
     PyStr(other),
     PyStr(<<Head(own)>> \o Tail(Tail(own))),
     PyStr(Tail(Tail(own))),
     PyStr(SubSeq(own, 1, Len(own) - 1)),
     PyStr(<<>>),
     PyNone,
     PyInt(5000)}

(* the entries of the list: dicts with a comment, and a text that is no    *)
(* dict                                                                    *)
CommentEntries(own, other) ==
    {PyDict([comment |-> t]) : t \in CommentValues(own, other)} \cup {PyStr(own)}

InitAssessed ==
    /\ \E sub, another \in SubmissionStates :
          /\ sub # another
          /\ LET own == get_fingerprint_marker(
                            compute_submission_fingerprint(SubmissionWithComments(sub, PyNone)))
                 other == get_fingerprint_marker(
                            compute_submission_fingerprint(SubmissionWithComments(another, PyNone)))
             IN  \/ \E n \in 0..MaxComments :
                    \E items \in [1..n -> CommentEntries(own, other)] :
                       states = <<SubmissionWithComments(sub, PyListOf(items))>>
                 \/ \E c \in {PyNone, PyStr(own), PyDict([comment |-> PyStr(own)])} :
                       states = <<SubmissionWithComments(sub, c)>>
    /\ fingerprints = <<>>
    /\ assessed = <<>>
    /\ assessment = NoAssessment
    /\ MetricsIdle
    /\ LoopsIdle
    /\ model_text = [k |-> "none"]
    /\ run = GradeRun(NoRubric)
    /\ outcome = NoOutcome
    /\ prev = NoPrev
    /\ vpc = "idle"
    /\ submission = NoSubmission
    /\ comments = <<>>
    /\ changes = 0
    /\ runs = <<>>

NextFingerprint == ComputeFingerprints \/ AlreadyAssessed

SpecFingerprint == InitFingerprint /\ [][NextFingerprint]_vars

SpecAssessed == InitAssessed /\ [][NextFingerprint]_vars

(***************************************************************************)
(* Revision metrics (grader.py, lines 484-588).  A text is a sequence of   *)
(* characters.  A float that the code computes as a quotient of two        *)
(* integers is kept as that quotient in lowest terms: the quotients of the *)
(* model have small denominators, so two of them are equal, or ordered, as *)
(* floats exactly when they are as fractions.                              *)
(***************************************************************************)
RECURSIVE gcd(_, _)
gcd(a, b) == IF b = 0 THEN a ELSE gcd(b, a % b)

(* n / d for n >= 0 and d > 0 *)
Ratio(n, d) == [n |-> n \div gcd(n, d), d |-> d \div gcd(n, d)]

RatioLeq(x, y) == x.n * y.d <= y.n * x.d

Whitespace == {" ", "\n", "\t"}

(* [.!?] *)
Terminators == {".", "!", "?"}

Letters == {"a", "b", "A", "B"}

(* \w *)
WordChars == Letters \cup {"0", "1", "_"}

(* [A-Za-z0-9'] *)
TokenChars == Letters \cup {"0", "1", "'"}

lower(s) ==
    [i \in 1..Len(s) |-> CASE s[i] = "A" -> "a" [] s[i] = "B" -> "b" [] OTHER -> s[i]]

(* the end of the run of characters of a class that starts at i: the       *)
(* first position from i on whose character is not in the class            *)
RunEnd(t, i, class) ==
    LET stops == {k \in i..Len(t) : t[k] \notin class}
    IN  IF stops = {} THEN Len(t) + 1 ELSE CHOOSE k \in stops : \A n \in stops : k <= n

(* _SENT_SPLIT_RE.split(t) for [.!?]+(?:\s+|$): a run of terminators is a  *)
(* separator, together with the whitespace after it, when whitespace or    *)
(* the end of the text follows it; start is where the current part began   *)
RECURSIVE _SENT_SPLIT_RE_split(_, _, _)
_SENT_SPLIT_RE_split(t, i, start) ==
    IF i > Len(t) THEN <<SubSeq(t, start, Len(t))>>
    ELSE IF t[i] \in Terminators
    THEN LET j == RunEnd(t, i, Terminators)
         IN  IF j > Len(t) THEN <<SubSeq(t, start, i - 1), <<>>>>
             ELSE IF t[j] \in Whitespace
             THEN <<SubSeq(t, start, i - 1)>>
                      \o _SENT_SPLIT_RE_split(t, RunEnd(t, j, Whitespace),
                                              RunEnd(t, j, Whitespace))
             ELSE _SENT_SPLIT_RE_split(t, j, start)
    ELSE _SENT_SPLIT_RE_split(t, i + 1, start)

NonEmpty(p) == p # <<>>

_split_sentences(text) ==
    LET t == strip(text)
    IN  IF t = <<>> THEN <<>>
        ELSE LET parts == _SENT_SPLIT_RE_split(t, 1, 1)
             IN  SelectSeq([k \in 1..Len(parts) |-> strip(parts[k])], NonEmpty)

(* re.sub(r"\s+", " ", s) *)
RECURSIVE sub_whitespace(_, _)
sub_whitespace(s, i) ==
    IF i > Len(s) THEN <<>>
    ELSE IF s[i] \in Whitespace
    THEN <<" ">> \o sub_whitespace(s, RunEnd(s, i, Whitespace))
    ELSE <<s[i]>> \o sub_whitespace(s, i + 1)

(* [\w\s'] *)
Kept(c) == c \in WordChars \cup Whitespace \cup {"'"}

_norm_sentence(s) ==
    strip(SelectSeq(sub_whitespace(strip(lower(s)), 1), Kept))

py_max(a, b) == IF a >= b THEN a ELSE b

(* faulty variant: the current sentences are not normalized *)
_sentence_change_pct_current_raw(prev_sents, curr_sents) ==
    LET prev_norm == [k \in 1..Len(prev_sents) |-> _norm_sentence(prev_sents[k])]
        curr_set == {curr_sents[k] : k \in 1..Len(curr_sents)}
    IN  IF prev_norm = <<>> THEN Ratio(0, 1)
        ELSE Ratio(100 * Cardinality({k \in 1..Len(prev_norm) : prev_norm[k] \notin curr_set}),
                   Len(prev_norm))

(* faulty variant: a previous sentence that occurs twice is counted once *)
_sentence_change_pct_distinct(prev_sents, curr_sents) ==
    LET prev_norm == {_norm_sentence(prev_sents[k]) : k \in 1..Len(prev_sents)}
        curr_set == {_norm_sentence(curr_sents[k]) : k \in 1..Len(curr_sents)}
    IN  IF prev_norm = {} THEN Ratio(0, 1)
        ELSE Ratio(100 * Cardinality(prev_norm \ curr_set), Cardinality(prev_norm))

_sentence_change_pct(prev_sents, curr_sents) ==
    IF prev_sents = <<>> THEN Ratio(0, 1)
    ELSE LET prev_kept == SelectSeq([k \in 1..Len(prev_sents) |-> strip(prev_sents[k])],
                                    NonEmpty)
             prev_norm == [k \in 1..Len(prev_kept) |-> _norm_sentence(prev_kept[k])]
             curr_set == {_norm_sentence(curr_sents[k]) :
                              k \in {n \in 1..Len(curr_sents) : strip(curr_sents[n]) # <<>>}}
         IN  IF prev_norm = <<>> THEN Ratio(0, 1)
             ELSE LET unchanged == Cardinality({k \in 1..Len(prev_norm) :
                                                   prev_norm[k] \in curr_set})
                      changed == py_max(0, Len(prev_norm) - unchanged)
                  IN  Ratio(100 * changed, py_max(1, Len(prev_norm)))

(* re.findall(r"[A-Za-z0-9']+", text.lower()) *)
RECURSIVE findall_words(_, _)
findall_words(t, i) ==
    IF i > Len(t) THEN <<>>
    ELSE IF t[i] \in TokenChars
    THEN <<SubSeq(t, i, RunEnd(t, i, TokenChars) - 1)>>
             \o findall_words(t, RunEnd(t, i, TokenChars))
    ELSE findall_words(t, i + 1)

_tokenize_words(text) == findall_words(lower(text), 1)

py_set(seq) == {seq[k] : k \in 1..Len(seq)}

(* faulty variant: two texts without words have nothing in common *)
_word_jaccard_pct_empty_is_zero(a, b) ==
    LET wa == py_set(_tokenize_words(a))
        wb == py_set(_tokenize_words(b))
    IN  IF wa \cup wb = {} THEN Ratio(0, 1)
        ELSE Ratio(100 * Cardinality(wa \cap wb), Cardinality(wa \cup wb))

_word_jaccard_pct(a, b) ==
    LET wa == py_set(_tokenize_words(a))
        wb == py_set(_tokenize_words(b))
        inter == Cardinality(wa \cap wb)
        union == Cardinality(wa \cup wb)
    IN  IF wa = {} /\ wb = {} THEN Ratio(100, 1)
        ELSE IF union <= 0 THEN Ratio(0, 1)
        ELSE Ratio(100 * inter, union)

RECURSIVE py_sum(_)
py_sum(nums) == IF nums = <<>> THEN 0 ELSE Head(nums) + py_sum(Tail(nums))

(* py_sum((x - mean) ** 2) / len, with mean = sum / len, is                   *)
(* (len * py_sum(x ** 2) - sum ** 2) / len ** 2                               *)
_variance(nums) ==
    IF nums = <<>> THEN Ratio(0, 1)
    ELSE LET squares == [k \in 1..Len(nums) |-> nums[k] * nums[k]]
         IN  Ratio(Len(nums) * py_sum(squares) - py_sum(nums) * py_sum(nums), Len(nums) * Len(nums))

(* re.split(r"\n\s*\n+", t): a newline is a separator, together with the   *)
(* whitespace after it up to its last newline, when that whitespace holds  *)
(* a newline                                                               *)
RECURSIVE split_paragraphs(_, _, _)
split_paragraphs(t, i, start) ==
    IF i > Len(t) THEN <<SubSeq(t, start, Len(t))>>
    ELSE IF t[i] = "\n"
    THEN LET newlines == {k \in (i + 1)..(RunEnd(t, i + 1, Whitespace) - 1) : t[k] = "\n"}
         IN  IF newlines = {} THEN split_paragraphs(t, i + 1, start)
             ELSE LET last == CHOOSE k \in newlines : \A n \in newlines : n <= k
                  IN  <<SubSeq(t, start, i - 1)>> \o split_paragraphs(t, last + 1, last + 1)
    ELSE split_paragraphs(t, i + 1, start)

_paragraph_count(text) ==
    LET blocks == split_paragraphs(strip(text), 1, 1)
    IN  Cardinality({k \in 1..Len(blocks) : strip(blocks[k]) # <<>>})

RevisionMetrics(sentence_change_pct, word_overlap_pct, avg_sentence_length_before, avg_sentence_length_after, sentence_length_variance_before, sentence_length_variance_after, paragraph_count_before, paragraph_count_after) ==
    [sentence_change_pct |-> sentence_change_pct,
     word_overlap_pct |-> word_overlap_pct,
     avg_sentence_length_before |-> avg_sentence_length_before,
     avg_sentence_length_after |-> avg_sentence_length_after,
     sentence_length_variance_before |-> sentence_length_variance_before,
     sentence_length_variance_after |-> sentence_length_variance_after,
     paragraph_count_before |-> paragraph_count_before,
     paragraph_count_after |-> paragraph_count_after]

(* [len(words of s) for s in sents] or [0] *)
SentenceLengths(sents) ==
    IF sents = <<>> THEN <<0>>
    ELSE [k \in 1..Len(sents) |-> Len(_tokenize_words(sents[k]))]

_compute_revision_metrics(previous_text, current_text) ==
    LET prev_sents == _split_sentences(previous_text)
        curr_sents == _split_sentences(current_text)
        prev_lens == SentenceLengths(prev_sents)
        curr_lens == SentenceLengths(curr_sents)
    IN  RevisionMetrics(_sentence_change_pct(prev_sents, curr_sents),
                        _word_jaccard_pct(previous_text, current_text),
                        Ratio(py_sum(prev_lens), py_max(1, Len(prev_lens))),
                        Ratio(py_sum(curr_lens), py_max(1, Len(curr_lens))),
                        _variance(prev_lens),
                        _variance(curr_lens),
                        _paragraph_count(previous_text),
                        _paragraph_count(current_text))

(* faulty variant: a rate of exactly 70 is still moderate *)
_revision_depth_label_above_only(m) ==
    LET c == m.sentence_change_pct
    IN  IF ~RatioLeq(c, Ratio(70, 1)) THEN "substantial"
        ELSE IF RatioLeq(Ratio(35, 1), c) THEN "moderate"
        ELSE "light"

_revision_depth_label(m) ==
    LET c == m.sentence_change_pct
    IN  IF RatioLeq(Ratio(70, 1), c) THEN "substantial"
        ELSE IF RatioLeq(Ratio(35, 1), c) THEN "moderate"
        ELSE "light"

(***************************************************************************)
(* The revision metrics on their own.  A caller holds a previous and a     *)
(* current text, computes the metrics and the label as grade_assignment    *)
(* does (lines 196-197), and then compares the texts the other way round.  *)
(***************************************************************************)
MaxPieces == 2

(* the pieces texts are made of: a sentence, the same sentence twice in    *)
(* upper and in lower case, a paragraph that ends without terminator, a    *)
(* sentence without a word, a sentence of two words with a terminator      *)
(* inside, and terminators alone                                           *)
Pieces ==
    {<<"a", ".", "\n">>,
     <<"A", ".", "\n", "a", "!", "\n">>,
     <<"b", "\n", "\n">>,
     <<"-", ".", "\n">>,
     <<"a", ".", "b", "!", "\n">>,
     <<".", ".", "\n">>}

RECURSIVE Concat(_)
Concat(pieces) == IF pieces = <<>> THEN <<>> ELSE Head(pieces) \o Concat(Tail(pieces))

Measured(m) == [m |-> m, depth |-> _revision_depth_label(m)]

InitMetrics ==
    /\ \E n1, n2 \in 0..MaxPieces :
       \E p1 \in [1..n1 -> Pieces] : \E p2 \in [1..n2 -> Pieces] :
          texts = <<Concat(p1), Concat(p2)>>
    /\ metrics = <<>>
    /\ assessment = NoAssessment
    /\ FingerprintIdle
    /\ LoopsIdle
    /\ model_text = [k |-> "none"]
    /\ run = GradeRun(NoRubric)
    /\ outcome = NoOutcome
    /\ prev = NoPrev
    /\ vpc = "idle"
    /\ submission = NoSubmission
    /\ comments = <<>>
    /\ changes = 0
    /\ runs = <<>>

Compare ==
    /\ Len(texts) = 2
    /\ metrics = <<>>
    /\ metrics' = <<Measured(_compute_revision_metrics(texts[1], texts[2]))>>
    /\ UNCHANGED <<texts, assessment, states, fingerprints, assessed, vvars, gvars, lvars>>

CompareBack ==
    /\ Len(texts) = 2
    /\ Len(metrics) = 1
    /\ metrics' = Append(metrics, Measured(_compute_revision_metrics(texts[2], texts[1])))
    /\ UNCHANGED <<texts, assessment, states, fingerprints, assessed, vvars, gvars, lvars>>

NextMetrics == Compare \/ CompareBack

SpecMetrics == InitMetrics /\ [][NextMetrics]_vars

(***************************************************************************)
(* The depth label on its own: the caller holds two metrics values and     *)
(* labels one after the other.                                             *)
(***************************************************************************)
PctDenominator == 1

Unlabelled(m) == [m |-> m, depth |-> "unlabelled"]

(* metrics with the given rates; the other fields are those of two texts   *)
(* of one sentence of one word in one paragraph                            *)
MetricsWith(sentence_change_pct, word_overlap_pct) ==
    RevisionMetrics(sentence_change_pct, word_overlap_pct, Ratio(1, 1), Ratio(1, 1),
                    Ratio(0, 1), Ratio(0, 1), 1, 1)

InitDepth ==
    /\ \E c1, c2 \in 0..(100 * PctDenominator) : \E w \in {0, 100} :
          metrics = <<Unlabelled(MetricsWith(Ratio(c1, PctDenominator), Ratio(0, 1))),
                      Unlabelled(MetricsWith(Ratio(c2, PctDenominator), Ratio(w, 1)))>>
    /\ texts = <<>>
    /\ assessment = NoAssessment
    /\ FingerprintIdle
    /\ LoopsIdle
    /\ model_text = [k |-> "none"]
    /\ run = GradeRun(NoRubric)
    /\ outcome = NoOutcome
    /\ prev = NoPrev
    /\ vpc = "idle"
    /\ submission = NoSubmission
    /\ comments = <<>>
    /\ changes = 0
    /\ runs = <<>>

Label(k) ==
    /\ texts = <<>>
    /\ k \in 1..Len(metrics)
    /\ metrics[k].depth = "unlabelled"
    /\ \A n \in 1..(k - 1) : metrics[n].depth # "unlabelled"
    /\ metrics' = [metrics EXCEPT ![k].depth = _revision_depth_label(metrics[k].m)]
    /\ UNCHANGED <<texts, assessment, states, fingerprints, assessed, vvars, gvars, lvars>>

NextDepth == \E k \in 1..2 : Label(k)

SpecDepth == InitDepth /\ [][NextDepth]_vars

(***************************************************************************)
(* One assignment (cli/main.py, _list_submitted_user_ids and               *)
(* grade_one_assignment): the user ids are those of --user-id or of the    *)
(* gradeable submissions Canvas lists, and each is given to                *)
(* _grade_one_submission in turn.                                          *)
(***************************************************************************)
MaxStudents == 3

Users == 1..MaxStudents

(* what Canvas lists for a user: nothing, a submission with content, one   *)
(* whose workflow_state is unsubmitted, one without body, attachment and   *)
(* submission_type, or one whose user_id is no int                         *)
SubmissionKinds == {"absent", "gradeable", "unsubmitted", "empty", "anonymous"}

RECURSIVE sorted(_)
sorted(S) ==
    IF S = {} THEN <<>>
    ELSE LET least == CHOOSE x \in S : \A y \in S : x <= y
         IN  <<least>> \o sorted(S \ {least})

(* the submissions of the page, in the order Canvas gives them *)
ListedSubmissions(kinds, descending) ==
    LET listed == sorted({u \in Users : kinds[u] # "absent"})
        n == Len(listed)
        at(k) == IF descending THEN listed[n + 1 - k] ELSE listed[k]
    IN  [k \in 1..n |->
            [user_id |-> IF kinds[at(k)] = "anonymous" THEN 0 ELSE at(k),
             isinstance_int |-> kinds[at(k)] # "anonymous",
             workflow_state |-> IF kinds[at(k)] = "unsubmitted" THEN "unsubmitted"
                                ELSE "submitted",
             has_content |-> kinds[at(k)] \notin {"empty"}]]

_list_submitted_user_ids(subs) ==
    sorted({subs[k].user_id :
               k \in {n \in 1..Len(subs) : /\ subs[n].isinstance_int
                                           /\ subs[n].workflow_state # "unsubmitted"
                                           /\ subs[n].has_content}})

(* what a call of _grade_one_submission does: it returns 0 after the       *)
(* assessment or after the skip, or it raises; the loop also provides for  *)
(* the nonzero return code that the docstring of the function announces    *)
StudentOutcomes == {"assessed", "skipped", "nonzero", "raised"}

ReturnCode(o) == IF o = "nonzero" THEN 1 ELSE 0

InitAssignment ==
    /\ \E kinds \in [Users -> SubmissionKinds] : \E descending \in BOOLEAN :
       \E user_id \in {0} \cup Users :
          students = [pc |-> "start",
                      args_user_id |-> user_id,
                      subs |-> IF user_id = 0 THEN ListedSubmissions(kinds, descending)
                               ELSE <<>>,
                      user_ids |-> <<>>, any_fail |-> FALSE,
                      called |-> <<>>, outcomes |-> <<>>, rc |-> -1]
    /\ batch = Idle /\ picked = Idle /\ request = Idle /\ preflight = Idle
    /\ assessment = NoAssessment
    /\ FingerprintIdle
    /\ MetricsIdle
    /\ ValidatorIdle
    /\ CanvasIdle

(* lines 399-409: args_user_id 0 stands for a --user-id that was not given; *)
(* the listing may raise, and an empty list ends the call with 0           *)
DetermineUserIds ==
    /\ students.pc = "start"
    /\ \/ LET user_ids == IF students.args_user_id # 0 THEN <<students.args_user_id>>
                          ELSE _list_submitted_user_ids(students.subs)
          IN  students' = IF user_ids = <<>>
                          THEN [students EXCEPT !.pc = "returned", !.rc = 0]
                          ELSE [students EXCEPT !.pc = "loop", !.user_ids = user_ids]
       \/ /\ students.args_user_id = 0
          /\ students' = [students EXCEPT !.pc = "raised"]
    /\ UNCHANGED <<batch, picked, request, preflight, pvars, vvars, gvars>>

(* faulty variant: the loop is left at the first student that fails *)
GradeStudent_stops_at_failure ==
    /\ students.pc = "loop"
    /\ Len(students.called) < Len(students.user_ids)
    /\ \E o \in StudentOutcomes :
          LET uid == students.user_ids[Len(students.called) + 1]
              failed == o = "raised" \/ ReturnCode(o) # 0
          IN  students' = [students EXCEPT !.called = Append(@, uid),
                                           !.outcomes = Append(@, o),
                                           !.any_fail = @ \/ failed,
                                           !.user_ids = IF failed
                                                        THEN SubSeq(@, 1, Len(students.called) + 1)
                                                        ELSE @]
    /\ UNCHANGED <<batch, picked, request, preflight, pvars, vvars, gvars>>

(* lines 412-426: one pass of the for loop *)
GradeStudent ==
    /\ students.pc = "loop"
    /\ Len(students.called) < Len(students.user_ids)
    /\ \E o \in StudentOutcomes :
          LET uid == students.user_ids[Len(students.called) + 1]
          IN  students' = [students EXCEPT
                             !.called = Append(@, uid),
                             !.outcomes = Append(@, o),
                             !.any_fail = IF o = "raised" THEN TRUE
                                          ELSE IF ReturnCode(o) # 0 THEN TRUE
                                          ELSE @]
    /\ UNCHANGED <<batch, picked, request, preflight, pvars, vvars, gvars>>

(* line 428: return 1 if any_fail else 0 *)
ReturnAnyFail ==
    /\ students.pc = "loop"
    /\ Len(students.called) = Len(students.user_ids)
    /\ students' = [students EXCEPT !.pc = "returned",
                                    !.rc = IF students.any_fail THEN 1 ELSE 0]
    /\ UNCHANGED <<batch, picked, request, preflight, pvars, vvars, gvars>>

NextAssignment == DetermineUserIds \/ GradeStudent \/ ReturnAnyFail

SpecAssignment == InitAssignment /\ [][NextAssignment]_vars

(***************************************************************************)
(* Several assignments (batch.py, BatchGrader): process_assignment_file    *)
(* loads the specifications of a file, drops the disabled ones when        *)
(* skip_disabled is set and hands the rest to process_assignments, which a *)
(* caller may also give a list of its own.                                 *)
(***************************************************************************)
MaxAssignments == 3

AssignmentSpec(course_id, assignment_id, enabled) ==
    [course_id |-> course_id, assignment_id |-> assignment_id, enabled |-> enabled]

AssignmentSpecs == {AssignmentSpec(1, a, e) : a \in 1..2, e \in BOOLEAN}

BatchResult(total, succeeded, failed, failures) ==
    [total |-> total, succeeded |-> succeeded, failed |-> failed, failures |-> failures]

NoResult == BatchResult(-1, -1, -1, <<>>)

(* what a callback does: it returns 0 or another number, or raises an      *)
(* exception of some type with some message                                *)
CallbackOutcomes ==
    {[raised |-> FALSE, rc |-> 0, type |-> "", message |-> ""],
     [raised |-> FALSE, rc |-> 1, type |-> "", message |-> ""],
     [raised |-> TRUE, rc |-> 0, type |-> "CanvasAPIError", message |-> "GET -> 404"]}

(* [s for s in specs if s.enabled] *)
RECURSIVE enabled_only(_)
enabled_only(specs) ==
    IF specs = <<>> THEN <<>>
    ELSE (IF Head(specs).enabled THEN <<Head(specs)>> ELSE <<>>) \o enabled_only(Tail(specs))

BatchLoop(assignments) ==
    [pc |-> "loop", assignments |-> assignments, total |-> Len(assignments),
     succeeded |-> 0, failures |-> <<>>, idx |-> 0, called |-> <<>>, outcomes |-> <<>>,
     result |-> NoResult]

InitBatch ==
    /\ \E n \in 0..MaxAssignments : \E specs \in [1..n -> AssignmentSpecs] :
       \E entry \in {"file", "list"} : \E skip_disabled \in BOOLEAN :
          /\ entry = "list" => ~skip_disabled
          /\ batch = [pc |-> "start", entry |-> entry, specs |-> specs,
                      skip_disabled |-> skip_disabled]
    /\ students = Idle /\ picked = Idle /\ request = Idle /\ preflight = Idle
    /\ assessment = NoAssessment
    /\ FingerprintIdle
    /\ MetricsIdle
    /\ ValidatorIdle
    /\ CanvasIdle

(* faulty variant: skip_disabled is not looked at *)
process_assignment_file_keeps_disabled ==
    /\ batch.pc = "start" /\ batch.entry = "file"
    /\ \/ batch' = BatchLoop(batch.specs) @@ batch
       \/ batch' = [batch EXCEPT !.pc = "raised"]
    /\ UNCHANGED <<students, picked, request, preflight, pvars, vvars, gvars>>

(* lines 142-147 and 164-166: the file is loaded, which may raise, the     *)
(* disabled specifications are dropped, and process_assignments begins     *)
process_assignment_file ==
    /\ batch.pc = "start" /\ batch.entry = "file"
    /\ \/ LET specs == IF batch.skip_disabled THEN enabled_only(batch.specs)
                       ELSE batch.specs
          IN  batch' = BatchLoop(specs) @@ batch
       \/ batch' = [batch EXCEPT !.pc = "raised"]
    /\ UNCHANGED <<students, picked, request, preflight, pvars, vvars, gvars>>

(* lines 164-166: process_assignments called with a list of the caller *)
process_assignments ==
    /\ batch.pc = "start" /\ batch.entry = "list"
    /\ batch' = BatchLoop(batch.specs) @@ batch
    /\ UNCHANGED <<students, picked, request, preflight, pvars, vvars, gvars>>

(* faulty variant: succeeded counts every callback that returned *)
grade_callback_counts_every_return ==
    /\ batch.pc = "loop"
    /\ batch.idx < Len(batch.assignments)
    /\ \E o \in CallbackOutcomes :
          LET spec == batch.assignments[batch.idx + 1]
              entered == [batch EXCEPT !.idx = @ + 1, !.called = Append(@, spec),
                                       !.outcomes = Append(@, o)]
          IN  batch' =
                 IF o.raised
                 THEN [entered EXCEPT !.failures =
                          Append(@, <<spec.course_id, spec.assignment_id,
                                      <<o.type, ": ", o.message>> >>)]
                 ELSE IF o.rc # 0
                 THEN [entered EXCEPT !.succeeded = @ + 1, !.failures =
                          Append(@, <<spec.course_id, spec.assignment_id,
                                      <<"nonzero return">> >>)]
                 ELSE [entered EXCEPT !.succeeded = @ + 1]
    /\ UNCHANGED <<students, picked, request, preflight, pvars, vvars, gvars>>

(* lines 168-198: one pass of the for loop; the message of a failure is    *)
(* "nonzero return" or the type of the exception, a colon and its text     *)
grade_callback ==
    /\ batch.pc = "loop"
    /\ batch.idx < Len(batch.assignments)
    /\ \E o \in CallbackOutcomes :
          LET spec == batch.assignments[batch.idx + 1]
              entered == [batch EXCEPT !.idx = @ + 1, !.called = Append(@, spec),
                                       !.outcomes = Append(@, o)]
          IN  batch' =
                 IF o.raised
                 THEN [entered EXCEPT !.failures =
                          Append(@, <<spec.course_id, spec.assignment_id,
                                      <<o.type, ": ", o.message>> >>)]
                 ELSE IF o.rc # 0
                 THEN [entered EXCEPT !.failures =
                          Append(@, <<spec.course_id, spec.assignment_id,
                                      <<"nonzero return">> >>)]
                 ELSE [entered EXCEPT !.succeeded = @ + 1]
    /\ UNCHANGED <<students, picked, request, preflight, pvars, vvars, gvars>>

(* lines 200-205 *)
ReturnBatchResult ==
    /\ batch.pc = "loop"
    /\ batch.idx = Len(batch.assignments)
    /\ batch' = [batch EXCEPT !.pc = "returned",
                              !.result = BatchResult(batch.total, batch.succeeded,
                                                     Len(batch.failures), batch.failures)]
    /\ UNCHANGED <<students, picked, request, preflight, pvars, vvars, gvars>>

NextBatch ==
    process_assignment_file \/ process_assignments \/ grade_callback \/ ReturnBatchResult

SpecBatch == InitBatch /\ [][NextBatch]_vars

(***************************************************************************)
(* The previous attempt (grader.py, lines 415-462 and 594-626).  A         *)
(* timestamp is a sequence of symbols: the date and time up to the last    *)
(* digit of the seconds is one symbol, then come that digit, an optional   *)
(* ".5" and an optional "Z".  A datetime is counted in half seconds.       *)
(***************************************************************************)
IsDigits(s) == s # <<>> /\ \A k \in 1..Len(s) : \E d \in 1..10 : Digits[d] = s[k]

DigitValue(c) == (CHOOSE d \in 1..10 : Digits[d] = c) - 1

RECURSIVE int_of_digits(_)
int_of_digits(s) ==
    IF s = <<>> THEN 0
    ELSE 10 * int_of_digits(SubSeq(s, 1, Len(s) - 1)) + DigitValue(s[Len(s)])

IntOf(n) == n.v.m \div 1000

(* int(v) cuts a float towards zero (the numbers here are not negative),   *)
(* reads a text of digits with whitespace around it, and raises on other   *)
(* texts and on lists and dicts                                            *)
_as_int_or_none(v) ==
    CASE v.j = "null" -> PyNone
      [] v.j = "num" -> PyInt((v.v.m \div 1000) * 1000)
      [] v.j = "str" -> IF IsDigits(strip(v.s)) THEN PyInt(int_of_digits(strip(v.s)) * 1000)
                        ELSE PyNone
      [] v.j \in {"list", "dict"} -> PyNone

_as_str_or_none(v) ==
    IF v.j = "str" /\ strip(v.s) # <<>> THEN PyStr(strip(v.s)) ELSE PyNone

DateAndTime == "2026-01-28T22:00:0"

Timestamp(seconds, half, z) ==
    PyStr(<<DateAndTime, Digits[seconds + 1]>>
             \o (IF half THEN <<".5">> ELSE <<>>) \o (IF z THEN <<"Z">> ELSE <<>>))

datetime(halves) == [j |-> "datetime", halves |-> halves]

(* datetime.fromisoformat, which raises on what is no timestamp; a time    *)
(* without offset is taken for UTC                                         *)
fromisoformat(s) ==
    LET t == IF s # <<>> /\ s[Len(s)] = "+00:00" THEN SubSeq(s, 1, Len(s) - 1) ELSE s
    IN  IF Len(t) \in {2, 3} /\ t[1] = DateAndTime /\ IsDigits(<<t[2]>>)
           /\ (Len(t) = 3 => t[3] = ".5")
        THEN datetime(2 * DigitValue(t[2]) + (IF Len(t) = 3 THEN 1 ELSE 0))
        ELSE PyNone

_parse_canvas_datetime(ts) ==
    IF ~truthy(ts) \/ ts.j # "str" THEN PyNone
    ELSE LET s == strip(ts.s)
         IN  IF s = <<>> THEN PyNone
             ELSE IF s[Len(s)] = "Z"
                  THEN fromisoformat(SubSeq(s, 1, Len(s) - 1) \o <<"+00:00">>)
                  ELSE fromisoformat(s)

(* list.sort(key=lambda t: t[0]): ascending and stable *)
sort_insert(sorted_pairs, p) ==
    LET n == Cardinality({k \in 1..Len(sorted_pairs) : sorted_pairs[k][1] <= p[1]})
    IN  SubSeq(sorted_pairs, 1, n) \o <<p>> \o SubSeq(sorted_pairs, n + 1, Len(sorted_pairs))

RECURSIVE list_sort(_)
list_sort(pairs) ==
    IF pairs = <<>> THEN <<>>
    ELSE sort_insert(list_sort(SubSeq(pairs, 1, Len(pairs) - 1)), pairs[Len(pairs)])

Indices(seq) == [k \in 1..Len(seq) |-> k]

_pick_previous_attempt_obj(sub, current_attempt) ==
    LET history == sub.submission_history
    IN  IF history.j # "list" THEN PyNone
        ELSE IF Len(history.items) < 2 THEN PyNone
        ELSE LET hist_entries == SelectSeq(history.items, LAMBDA h : h.j = "dict")
             IN  IF hist_entries = <<>> THEN PyNone
                 ELSE IF current_attempt.j # "null"
                 THEN LET a == [k \in 1..Len(hist_entries) |->
                                   _as_int_or_none(hist_entries[k].d.attempt)]
                          smaller == SelectSeq(Indices(hist_entries), LAMBDA k :
                                        a[k].j # "null" /\ IntOf(a[k]) < IntOf(current_attempt))
                          candidates == [n \in 1..Len(smaller) |->
                                           <<IntOf(a[smaller[n]]), hist_entries[smaller[n]]>>]
                          by_attempt == list_sort(candidates)
                      IN  IF candidates = <<>> THEN PyNone
                          ELSE by_attempt[Len(by_attempt)][2]
                 ELSE LET dt == [k \in 1..Len(hist_entries) |->
                                   _parse_canvas_datetime(
                                       _as_str_or_none(hist_entries[k].d.submitted_at))]
                          parsed == SelectSeq(Indices(hist_entries), LAMBDA k : dt[k].j # "null")
                          dated == [n \in 1..Len(parsed) |->
                                      <<dt[parsed[n]].halves, hist_entries[parsed[n]]>>]
                          by_date == list_sort(dated)
                      IN  IF Len(dated) >= 2 THEN by_date[Len(by_date) - 1][2]
                          ELSE hist_entries[1]

(* The function on its own: a caller holds a submission with its history   *)
(* and calls the function on it, and on the same submission with the       *)
(* history in reverse order.                                               *)
MaxHistory == 3

HistoryEntry(attempt, submitted_at, body) ==
    PyDict([attempt |-> attempt, submitted_at |-> submitted_at, body |-> body])

(* attempt numbers as Canvas gives them, and as others might: as a text,   *)
(* as a float, absent                                                      *)
HistoryAttempts ==
    {PyNone, PyInt(1000), PyInt(2000), PyStr(<<"1">>), PyStr(<<"x">>), PyFloat(1500, 0)}

HistoryEntries ==
    {HistoryEntry(a, PyNone, PyStr(<<b>>)) : a \in HistoryAttempts, b \in {"a", "b"}}
        \cup {PyStr(<<"x">>)}

CurrentAttempts == {PyNone, PyInt(1000), PyInt(2000), PyInt(3000), PyStr(<<"2">>)}

InitHistory ==
    /\ \E attempt \in CurrentAttempts :
          \/ \E n \in 0..MaxHistory : \E items \in [1..n -> HistoryEntries] :
                picked = [pc |-> "ready", attempt |-> attempt,
                          submission_history |-> PyListOf(items), results |-> <<>>]
          \/ picked = [pc |-> "ready", attempt |-> attempt,
                       submission_history |-> PyNone, results |-> <<>>]
    /\ students = Idle /\ batch = Idle /\ request = Idle /\ preflight = Idle
    /\ assessment = NoAssessment
    /\ FingerprintIdle
    /\ MetricsIdle
    /\ ValidatorIdle
    /\ CanvasIdle

ReversedHistory(history) ==
    IF history.j = "list" THEN PyListOf(Reverse(history.items)) ELSE history

(* grader.py, lines 159 and 164 *)
PickPrevious ==
    /\ picked.pc = "ready"
    /\ picked.results = <<>>
    /\ LET submission_attempt == _as_int_or_none(picked.attempt)
           prev_obj == _pick_previous_attempt_obj(picked, submission_attempt)
       IN  picked' = [picked EXCEPT !.results = <<prev_obj>>]
    /\ UNCHANGED <<students, batch, request, preflight, pvars, vvars, gvars>>

(* the same call on the history in reverse order *)
PickPreviousReversed ==
    /\ picked.pc = "ready"
    /\ Len(picked.results) = 1
    /\ LET submission_attempt == _as_int_or_none(picked.attempt)
           reversed == [picked EXCEPT !.submission_history = ReversedHistory(@)]
           prev_obj == _pick_previous_attempt_obj(reversed, submission_attempt)
       IN  picked' = [picked EXCEPT !.results = Append(@, prev_obj), !.pc = "done"]
    /\ UNCHANGED <<students, batch, request, preflight, pvars, vvars, gvars>>

NextHistory == PickPrevious \/ PickPreviousReversed

SpecHistory == InitHistory /\ [][NextHistory]_vars

(***************************************************************************)
(* One call of CanvasClient._request (canvas/client.py, lines 57-93).      *)
(* Each turn of the loop sends one request; the request ends within        *)
(* timeout_s, with a response or with an exception of the requests         *)
(* library.  request.statuses holds the status of every response so far.   *)
(***************************************************************************)
MaxRetries == 3

StatusCodes == {200, 399, 400, 404, 500, 501, 502, 503, 504}

ResponseTexts == {<<>>, <<" ">>, <<"{}">>, <<"<html>">>}

ErrorTexts == {<<>>, <<"busy">>}

Response(status_code, text) == [status_code |-> status_code, text |-> text]

Responses ==
    {Response(s, t) : s \in {s \in StatusCodes : s < 400}, t \in ResponseTexts}
        \cup {Response(s, t) : s \in {s \in StatusCodes : s >= 400}, t \in ErrorTexts}

CanvasAPIError(status_code, body) ==
    [k |-> "raised", type |-> "CanvasAPIError", status_code |-> status_code, body |-> body]

NoError == [k |-> "none"]

Running == [k |-> "none"]

(* resp.json(): the body parsed, or the decoding error of requests *)
resp_json(text) ==
    IF strip(text) = <<"{}">> THEN [k |-> "returned", value |-> PyDict(<<>>)]
    ELSE [k |-> "raised", type |-> "JSONDecodeError", status_code |-> 0, body |-> text]

InitRequest ==
    /\ \E max_retries \in 0..MaxRetries :
          request = [pc |-> "loop", max_retries |-> max_retries, attempt |-> 1,
                     sent |-> 0, statuses |-> <<>>, last |-> NoError, result |-> Running]
    /\ students = Idle /\ batch = Idle /\ picked = Idle /\ preflight = Idle
    /\ assessment = NoAssessment
    /\ FingerprintIdle
    /\ MetricsIdle
    /\ ValidatorIdle
    /\ CanvasIdle

(* faulty variant: every status of 400 or above is tried again *)
SendRequest_retries_every_error ==
    /\ request.pc = "loop"
    /\ request.attempt <= request.max_retries
    /\ \/ request' = [request EXCEPT !.sent = @ + 1, !.pc = "done",
                         !.result = [k |-> "raised", type |-> "ConnectionError",
                                     status_code |-> 0, body |-> <<>>]]
       \/ \E resp \in Responses :
             request' =
                 IF resp.status_code < 400
                 THEN [request EXCEPT !.sent = @ + 1, !.statuses = Append(@, resp.status_code),
                          !.pc = "done",
                          !.result = IF strip(resp.text) = <<>>
                                     THEN [k |-> "returned", value |-> PyNone]
                                     ELSE resp_json(resp.text)]
                 ELSE [request EXCEPT !.sent = @ + 1, !.statuses = Append(@, resp.status_code),
                          !.last = CanvasAPIError(resp.status_code, resp.text),
                          !.attempt = @ + 1]
    /\ UNCHANGED <<students, batch, picked, preflight, pvars, vvars, gvars>>

(* lines 69-89: one turn of the loop *)
SendRequest ==
    /\ request.pc = "loop"
    /\ request.attempt <= request.max_retries
    /\ \/ request' = [request EXCEPT !.sent = @ + 1, !.pc = "done",
                         !.result = [k |-> "raised", type |-> "ConnectionError",
                                     status_code |-> 0, body |-> <<>>]]
       \/ \E resp \in Responses :
             request' =
                 IF resp.status_code < 400
                 THEN [request EXCEPT !.sent = @ + 1, !.statuses = Append(@, resp.status_code),
                          !.pc = "done",
                          !.result = IF strip(resp.text) = <<>>
                                     THEN [k |-> "returned", value |-> PyNone]
                                     ELSE resp_json(resp.text)]
                 ELSE IF resp.status_code \in {500, 502, 503, 504}
                 THEN [request EXCEPT !.sent = @ + 1, !.statuses = Append(@, resp.status_code),
                          !.last = CanvasAPIError(resp.status_code, resp.text),
                          !.attempt = @ + 1]
                 ELSE [request EXCEPT !.sent = @ + 1, !.statuses = Append(@, resp.status_code),
                          !.pc = "done",
                          !.result = CanvasAPIError(resp.status_code, resp.text)]
    /\ UNCHANGED <<students, batch, picked, preflight, pvars, vvars, gvars>>

(* lines 91-93: the loop has run out *)
RaiseAfterRetries ==
    /\ request.pc = "loop"
    /\ request.attempt > request.max_retries
    /\ request' = [request EXCEPT !.pc = "done",
                      !.result = IF request.last.k # "none" THEN request.last
                                 ELSE CanvasAPIError(599, <<"Unknown error after retries">>)]
    /\ UNCHANGED <<students, batch, picked, preflight, pvars, vvars, gvars>>

NextRequest == SendRequest \/ RaiseAfterRetries

(* one thread runs the call: a turn that can be taken is taken *)
SpecRequest == InitRequest /\ [][NextRequest]_vars /\ WF_vars(NextRequest)

(***************************************************************************)
(* The submission part of grade_assignment (grader.py, lines 145-228, and  *)
(* textutil.py).  A body is a sequence of characters in which a tag or an  *)
(* entity is one symbol.  An attachment stands for its file: whether it    *)
(* looks like a DOCX file, and the text its download and extraction        *)
(* yield, if they do not raise.                                            *)
(***************************************************************************)
Some(v) == [j |-> "some", v |-> v]

RECURSIVE replace_tags(_)
replace_tags(s) ==
    IF s = <<>> THEN <<>>
    ELSE (CASE Head(s) = "<br>" -> <<"\n">>
            [] Head(s) = "</p>" -> <<"\n", "\n">>
            [] Head(s) = "<p>" -> <<>>
            [] Head(s) = "&nbsp;" -> <<" ">>
            [] OTHER -> <<Head(s)>>) \o replace_tags(Tail(s))

(* re.sub(r"\n{3,}", "\n\n", s) and re.sub(r"[ \t]{2,}", " ", s) *)
RECURSIVE collapse_runs(_, _, _, _, _)
collapse_runs(t, i, class, least, by) ==
    IF i > Len(t) THEN <<>>
    ELSE IF t[i] \in class
    THEN LET e == RunEnd(t, i, class)
         IN  (IF e - i >= least THEN by ELSE SubSeq(t, i, e - 1))
                 \o collapse_runs(t, e, class, least, by)
    ELSE <<t[i]>> \o collapse_runs(t, i + 1, class, least, by)

html_to_text(html) ==
    LET s1 == replace_tags(html)
        s2 == collapse_runs(s1, 1, {"\n"}, 3, <<"\n", "\n">>)
        s3 == collapse_runs(s2, 1, {" ", "\t"}, 2, <<" ">>)
    IN  strip(s3)

(* len(re.findall(r"\b\w+\b", text)) *)
RECURSIVE count_words(_, _)
count_words(t, i) ==
    IF i > Len(t) THEN 0
    ELSE IF t[i] \in WordChars THEN 1 + count_words(t, RunEnd(t, i, WordChars))
    ELSE count_words(t, i + 1)

word_count(text) == IF text = <<>> THEN 0 ELSE count_words(text, 1)

Attachment(docx, download) == [j |-> "dict", docx |-> docx, download |-> download]

_pick_first_docx_attachment(attachments) ==
    LET found == SelectSeq(attachments, LAMBDA a : a.j = "dict" /\ a.docx)
    IN  IF found = <<>> THEN PyNone ELSE found[1]

SubmissionNotFoundError == [raised |-> TRUE, type |-> "SubmissionNotFoundError"]

Extracted(text) == [raised |-> FALSE, text |-> text]

_extract_submission_text(sub) ==
    IF sub.body.j = "str" /\ strip(sub.body.s) # <<>>
    THEN Extracted(html_to_text(sub.body.s))
    ELSE LET att == IF sub.attachments.j = "list"
                    THEN _pick_first_docx_attachment(sub.attachments.items)
                    ELSE PyNone
         IN  IF att.j = "null" THEN SubmissionNotFoundError
             ELSE IF att.download.j # "str" THEN [raised |-> TRUE, type |-> "CanvasAPIError"]
             ELSE IF strip(att.download.s) = <<>> THEN SubmissionNotFoundError
             ELSE Extracted(strip(att.download.s))

RECURSIVE first_with_attempt(_, _)
first_with_attempt(items, attempt) ==
    IF items = <<>> THEN PyNone
    ELSE IF Head(items).j = "dict" /\ _as_int_or_none(Head(items).d.attempt) = attempt
    THEN _as_str_or_none(Head(items).d.submitted_at)
    ELSE first_with_attempt(Tail(items), attempt)

_find_submitted_at_for_attempt(sub, attempt) ==
    IF attempt.j = "null" THEN PyNone
    ELSE IF sub.submission_history.j # "list" THEN PyNone
    ELSE first_with_attempt(sub.submission_history.items, attempt)

(* int((dt_curr - dt_prev).total_seconds()): towards zero *)
whole_seconds(halves) == IF halves >= 0 THEN halves \div 2 ELSE 0 - ((0 - halves) \div 2)

RevisionRun(submission_text, submission_word_count, submission_attempt, submitted_at, previous_submission_text, previous_submission_word_count, previous_submission_attempt, previous_submitted_at, time_since_previous_attempt_seconds, revision_metrics, revision_depth) ==
    [submission_text |-> submission_text,
     submission_word_count |-> submission_word_count,
     submission_attempt |-> submission_attempt,
     submitted_at |-> submitted_at,
     previous_submission_text |-> previous_submission_text,
     previous_submission_word_count |-> previous_submission_word_count,
     previous_submission_attempt |-> previous_submission_attempt,
     previous_submitted_at |-> previous_submitted_at,
     time_since_previous_attempt_seconds |-> time_since_previous_attempt_seconds,
     revision_metrics |-> revision_metrics,
     revision_depth |-> revision_depth]

(* faulty variant: the metrics are computed whenever a previous attempt    *)
(* was found, on an empty text when it has none                            *)
grade_revision_whenever_previous(sub) ==
    LET submission_text == _extract_submission_text(sub).text
        submission_attempt == _as_int_or_none(sub.attempt)
        submitted_at == py_or(_as_str_or_none(sub.submitted_at),
                              _find_submitted_at_for_attempt(sub, submission_attempt))
        prev_obj == _pick_previous_attempt_obj(sub, submission_attempt)
        found == prev_obj.j # "null"
        extracted == IF found THEN _extract_submission_text(prev_obj.d)
                     ELSE SubmissionNotFoundError
        previous_text == IF extracted.raised THEN PyNone ELSE PyStr(extracted.text)
        dt_curr == _parse_canvas_datetime(submitted_at)
        dt_prev == IF found THEN _parse_canvas_datetime(_as_str_or_none(prev_obj.d.submitted_at))
                   ELSE PyNone
        delta == IF dt_curr.j # "null" /\ dt_prev.j # "null"
                 THEN whole_seconds(dt_curr.halves - dt_prev.halves) ELSE 0 - 1
        m == _compute_revision_metrics(IF truthy(previous_text) THEN previous_text.s ELSE <<>>,
                                       submission_text)
    IN  RevisionRun(submission_text, word_count(submission_text), submission_attempt,
                    submitted_at, previous_text,
                    IF previous_text.j = "null" THEN PyNone
                    ELSE PyInt(1000 * word_count(previous_text.s)),
                    IF found THEN _as_int_or_none(prev_obj.d.attempt) ELSE PyNone,
                    IF found THEN _as_str_or_none(prev_obj.d.submitted_at) ELSE PyNone,
                    IF delta >= 0 THEN PyInt(1000 * delta) ELSE PyNone,
                    IF found THEN Some(m) ELSE PyNone,
                    IF found THEN Some(_revision_depth_label(m)) ELSE PyNone)

(* lines 156-228, for a submission whose text can be extracted *)
grade_revision(sub) ==
    LET submission_text == _extract_submission_text(sub).text
        submission_attempt == _as_int_or_none(sub.attempt)
        submitted_at == py_or(_as_str_or_none(sub.submitted_at),
                              _find_submitted_at_for_attempt(sub, submission_attempt))
        prev_obj == _pick_previous_attempt_obj(sub, submission_attempt)
        found == prev_obj.j # "null"
        extracted == IF found THEN _extract_submission_text(prev_obj.d)
                     ELSE SubmissionNotFoundError
        previous_text == IF extracted.raised THEN PyNone ELSE PyStr(extracted.text)
        dt_curr == _parse_canvas_datetime(submitted_at)
        dt_prev == IF found THEN _parse_canvas_datetime(_as_str_or_none(prev_obj.d.submitted_at))
                   ELSE PyNone
        delta == IF dt_curr.j # "null" /\ dt_prev.j # "null"
                 THEN whole_seconds(dt_curr.halves - dt_prev.halves) ELSE 0 - 1
        m == _compute_revision_metrics(previous_text.s, submission_text)
    IN  RevisionRun(submission_text, word_count(submission_text), submission_attempt,
                    submitted_at, previous_text,
                    IF previous_text.j = "null" THEN PyNone
                    ELSE PyInt(1000 * word_count(previous_text.s)),
                    IF found THEN _as_int_or_none(prev_obj.d.attempt) ELSE PyNone,
                    IF found THEN _as_str_or_none(prev_obj.d.submitted_at) ELSE PyNone,
                    IF delta >= 0 THEN PyInt(1000 * delta) ELSE PyNone,
                    IF truthy(previous_text) THEN Some(m) ELSE PyNone,
                    IF truthy(previous_text) THEN Some(_revision_depth_label(m)) ELSE PyNone)

(* The submission part on its own: Canvas has answered the request for the *)
(* submission, and grade_assignment goes on from line 149.                 *)
MaxPrevious == 2

NoBody == [body |-> PyNone, attachments |-> PyNone]

BlankParagraph == [body |-> PyStr(<<"<p>", "&nbsp;", "</p>">>), attachments |-> PyNone]

OneParagraph == [body |-> PyStr(<<"<p>", "a", ".", "</p>">>), attachments |-> PyNone]

TwoParagraphs ==
    [body |-> PyStr(<<"<p>", "a", ".", "</p>", "<p>", "b", " ", " ", "a", "!", "<br>", "</p>">>),
     attachments |-> PyNone]

Uploaded ==
    [body |-> PyStr(<<" ">>),
     attachments |-> PyListOf(<<Attachment(FALSE, PyStr(<<"a", ".">>)),
                                Attachment(TRUE, PyStr(<<"b", "!", "\n">>))>>)]

UploadLost == [body |-> PyNone, attachments |-> PyListOf(<<Attachment(TRUE, PyNone)>>)]

PreviousTimes ==
    {PyNone, Timestamp(0, FALSE, TRUE), Timestamp(1, TRUE, TRUE), Timestamp(3, FALSE, FALSE)}

PreviousEntry(attempt, submitted_at, content) ==
    PyDict([attempt |-> attempt, submitted_at |-> submitted_at, body |-> content.body,
            attachments |-> content.attachments])

(* every attempt number with every time, and with every content *)
PreviousEntries ==
    {PreviousEntry(PyInt(a), t, TwoParagraphs) : a \in {1000, 2000}, t \in PreviousTimes}
        \cup {PreviousEntry(PyInt(a), Timestamp(0, FALSE, TRUE), c) :
                  a \in {1000, 2000}, c \in {NoBody, BlankParagraph, TwoParagraphs, Uploaded}}

FetchedSubmission(user_id, attempt, submitted_at, content, submission_history) ==
    PyDict([user_id |-> user_id, attempt |-> attempt, submitted_at |-> submitted_at,
            body |-> content.body, attachments |-> content.attachments,
            submission_history |-> submission_history])

CurrentAttemptNumbers == {PyNone, PyInt(2000)}

CurrentTimes == {PyNone, Timestamp(1, FALSE, TRUE)}

(* Canvas answers with nothing, with a submission without user, with one   *)
(* whose upload cannot be fetched, or with a text entry, with or without   *)
(* history                                                                 *)
InitPreflight ==
    /\ \/ \E reply \in {PyNone,
                          FetchedSubmission(PyNone, PyInt(2000), PyNone, OneParagraph, PyNone),
                          FetchedSubmission(PyInt(7000), PyInt(2000), PyNone, UploadLost, PyNone)} :
             preflight = [pc |-> "fetch", reply |-> reply, run |-> PyNone, error |-> ""]
       \/ \E a \in CurrentAttemptNumbers : \E t \in CurrentTimes :
             preflight = [pc |-> "fetch", run |-> PyNone, error |-> "",
                          reply |-> FetchedSubmission(PyInt(7000), a, t, OneParagraph, PyNone)]
       \/ \E a \in CurrentAttemptNumbers : \E t \in CurrentTimes :
          \E n \in 0..MaxPrevious : \E items \in [1..n -> PreviousEntries] :
             preflight = [pc |-> "fetch", run |-> PyNone, error |-> "",
                          reply |-> FetchedSubmission(PyInt(7000), a, t, OneParagraph,
                                                      PyListOf(items))]
    /\ students = Idle /\ batch = Idle /\ picked = Idle /\ request = Idle
    /\ assessment = NoAssessment
    /\ FingerprintIdle
    /\ MetricsIdle
    /\ ValidatorIdle
    /\ CanvasIdle

(* lines 145-154 *)
FetchSubmission ==
    /\ preflight.pc = "fetch"
    /\ preflight' =
          IF ~(preflight.reply.j = "dict")
          THEN [preflight EXCEPT !.pc = "raised", !.error = "SubmissionNotFoundError"]
          ELSE IF preflight.reply.d.user_id.j = "null"
          THEN [preflight EXCEPT !.pc = "raised", !.error = "SubmissionNotFoundError"]
          ELSE [preflight EXCEPT !.pc = "extract"]
    /\ UNCHANGED <<students, batch, picked, request, pvars, vvars, gvars>>

(* faulty variant *)
BuildGradeRun_whenever_previous ==
    /\ preflight.pc = "extract"
    /\ LET extracted == _extract_submission_text(preflight.reply.d)
       IN  preflight' =
              IF extracted.raised
              THEN [preflight EXCEPT !.pc = "raised", !.error = extracted.type]
              ELSE [preflight EXCEPT !.pc = "returned",
                       !.run = grade_revision_whenever_previous(preflight.reply.d)]
    /\ UNCHANGED <<students, batch, picked, request, pvars, vvars, gvars>>

(* lines 156-228 *)
BuildGradeRun ==
    /\ preflight.pc = "extract"
    /\ LET extracted == _extract_submission_text(preflight.reply.d)
       IN  preflight' =
              IF extracted.raised
              THEN [preflight EXCEPT !.pc = "raised", !.error = extracted.type]
              ELSE [preflight EXCEPT !.pc = "returned",
                       !.run = grade_revision(preflight.reply.d)]
    /\ UNCHANGED <<students, batch, picked, request, pvars, vvars, gvars>>

NextPreflight == FetchSubmission \/ BuildGradeRun

SpecPreflight == InitPreflight /\ [][NextPreflight]_vars

(***************************************************************************)
(* What the claims speak of: the checks of the specification, stated on    *)
(* the input, and the discriminant of a reported error.                    *)
(***************************************************************************)
IsObject(v) == v.j = "object"

Keys(v) == PairKeys(v.pairs)

Get(v, k) == v.pairs[LastIndex(v.pairs, k)][2]

RubricIds(rubric) == {rubric.criteria[i].id : i \in 1..Len(rubric.criteria)}

RubricOrder(rubric) == FirstOccurrences(rubric.criteria, {})

MaxPoints(rubric, cid) ==
    LET c == LastCriterion(rubric.criteria, cid)
    IN  IF c.points.j = "num" THEN c.points.v ELSE Zero

(* a JSON number that is not a boolean and is finite *)
IsFiniteNumber(v) == v.j \in {"num", "bigint"}

InRange(v, max) ==
    /\ v.j = "num"
    /\ ~DecLess(v.v, Zero)
    /\ ~DecLess(DecAdd(max, Dec(0, 10)), v.v)

IsComment(v) == v.j = "str" /\ \E i \in 1..Len(v.s) : ~isspace(v.s[i])

WithinSum(v, sum) ==
    /\ v.j = "num"
    /\ ~DecLess(Dec(0, 10000), DecSub(v.v, sum))
    /\ ~DecLess(Dec(0, 10000), DecSub(sum, v.v))

Failure(step, at) == [step |-> step, at |-> at]

Accepted == Failure("none", "")

(* overflow: whether an int beyond the float range fails the score type    *)
(* step with OverflowError (as the code does) or counts as a number        *)
CriterionFailure(cid, item, max, overflow) ==
    IF ~IsObject(item) \/ Keys(item) # {"score", "comment"}
    THEN Failure("CriterionShapeMismatch", cid)
    ELSE IF overflow /\ Get(item, "score").j = "bigint" THEN Failure("OverflowError", cid)
    ELSE IF ~IsFiniteNumber(Get(item, "score")) THEN Failure("ScoreTypeError", cid)
    ELSE IF ~InRange(Get(item, "score"), max) THEN Failure("ScoreRangeError", cid)
    ELSE IF ~IsComment(Get(item, "comment")) THEN Failure("EmptyCommentError", cid)
    ELSE Accepted

RECURSIVE CriteriaFailure(_, _, _, _)
CriteriaFailure(order, criteria, rubric, overflow) ==
    IF order = <<>> THEN Accepted
    ELSE LET f == CriterionFailure(Head(order), Get(criteria, Head(order)),
                                   MaxPoints(rubric, Head(order)), overflow)
         IN  IF f # Accepted THEN f
             ELSE CriteriaFailure(Tail(order), criteria, rubric, overflow)

RECURSIVE ScoresSum(_, _)
ScoresSum(order, criteria) ==
    IF order = <<>> THEN Zero
    ELSE DecAdd(Get(Get(criteria, Head(order)), "score").v, ScoresSum(Tail(order), criteria))

SumFailure(v, rubric) ==
    IF WithinSum(Get(v, "overall_score"), ScoresSum(RubricOrder(rubric), Get(v, "criteria")))
    THEN Accepted
    ELSE Failure("OverallScoreMismatch", "overall_score")

CommentFailure(v) ==
    IF IsComment(Get(v, "overall_comment")) THEN Accepted
    ELSE Failure("EmptyCommentError", "overall_comment")

(* The earliest failing step of an input.  sumFirst: the sum of the scores *)
(* is checked before overall_comment (the order of the specification) or   *)
(* after it.                                                               *)
EarliestFailure(text, rubric, sumFirst, overflow) ==
    IF text.k # "str" \/ text.body.d = "empty" THEN Failure("EmptyInput", "")
    ELSE IF text.body.d = "bad" THEN Failure("ParseError", "")
    ELSE LET v == text.body.val
         IN  IF ~IsObject(v) THEN Failure("TopLevelNotObject", "")
             ELSE IF Keys(v) # {"overall_score", "overall_comment", "criteria"}
             THEN Failure("TopLevelKeyMismatch", "")
             ELSE IF ~IsObject(Get(v, "criteria")) \/ Keys(Get(v, "criteria")) # RubricIds(rubric)
             THEN Failure("CriterionKeyMismatch", "criteria")
             ELSE LET f == CriteriaFailure(RubricOrder(rubric), Get(v, "criteria"), rubric,
                                           overflow)
                  IN  IF f # Accepted THEN f
                      ELSE IF overflow /\ Get(v, "overall_score").j = "bigint"
                      THEN Failure("OverflowError", "overall_score")
                      ELSE IF ~IsFiniteNumber(Get(v, "overall_score"))
                      THEN Failure("ScoreTypeError", "overall_score")
                      ELSE IF sumFirst
                      THEN IF SumFailure(v, rubric) # Accepted THEN SumFailure(v, rubric)
                           ELSE CommentFailure(v)
                      ELSE IF CommentFailure(v) # Accepted THEN CommentFailure(v)
                           ELSE SumFailure(v, rubric)

(* the step a message of the validator belongs to *)
Discriminant(o) ==
    CASE o.exc # "JSONParseError" -> o.exc
      [] o.msg = "Model output was empty or not a string." -> "EmptyInput"
      [] o.msg = "Invalid JSON from model" -> "ParseError"
      [] o.msg = "Top-level JSON must be an object (dictionary)." -> "TopLevelNotObject"
      [] o.msg \in {"Missing top-level key(s)", "Unexpected top-level key(s)"} ->
            "TopLevelKeyMismatch"
      [] o.msg \in {"criteria must be an object mapping criterion_id -> {score, comment}.",
                    "criteria is missing rubric criterion id(s)",
                    "criteria contains unexpected criterion id(s)"} -> "CriterionKeyMismatch"
      [] o.msg \in {"criteria.{cid} must be an object with keys {score, comment}.",
                    "criteria.{cid} missing key(s)",
                    "criteria.{cid} has unexpected key(s)"} -> "CriterionShapeMismatch"
      [] o.msg \in {"{path} must be a number, not boolean.", "{path} must be a finite number.",
                    "{path} must be a number."} -> "ScoreTypeError"
      [] o.msg \in {"criteria.{cid}.score must be >= 0.",
                    "criteria.{cid}.score exceeds max points"} -> "ScoreRangeError"
      [] o.msg \in {"{path} must be a string.",
                    "criteria.{cid}.comment must be a non-empty string.",
                    "overall_comment must be a non-empty string."} -> "EmptyCommentError"
      [] o.msg = "overall_score does not equal sum of criterion scores" ->
            "OverallScoreMismatch"
      [] OTHER -> "unknown"

Reported(o) ==
    IF o.ok THEN Accepted
    ELSE Failure(Discriminant(o),
                 IF o.path = <<>> THEN ""
                 ELSE IF o.path[1] = "criteria" /\ Len(o.path) > 1 THEN o.path[2]
                 ELSE o.path[1])

Usable == ~run.rubric.isNone /\ run.rubric.criteria # <<>>

Called == vpc = "done"

IsPayload == model_text.k = "str" /\ model_text.body.d = "json" /\ IsObject(model_text.body.val)

Payload == model_text.body.val

(***************************************************************************)
(* C2 as stated: whenever the validator rejects an input with a validation *)
(* error, the error is that of the earliest failing step in the order      *)
(* empty input, JSON parse, top-level object, top-level keys, criteria     *)
(* keys, per criterion (shape, score type, score range, comment),          *)
(* overall_score type, overall_score sum, overall_comment.                 *)
(***************************************************************************)
C2_OrderAsStated ==
    (Called /\ Usable /\ ~outcome.ok /\ outcome.exc = "JSONParseError")
        => Reported(outcome) = EarliestFailure(model_text, run.rubric, TRUE, FALSE)

(***************************************************************************)
(* C2 amended: for a rubric with criteria, the outcome of the validator is *)
(* that of the earliest failing step in the order of the code, in which    *)
(* overall_comment is checked before the sum of the scores; the input is   *)
(* accepted when no step fails.  An int beyond the float range raises      *)
(* OverflowError at the score type step of its field.                      *)
(***************************************************************************)
C2_OrderOfTheCode ==
    (Called /\ Usable)
        => Reported(outcome) = EarliestFailure(model_text, run.rubric, FALSE, TRUE)

(* a payload whose overall_score misses the sum and whose overall_comment  *)
(* is blank is rejected for the comment                                    *)
C2_Witness ==
    /\ Called /\ Usable /\ IsPayload
    /\ EarliestFailure(model_text, run.rubric, TRUE, TRUE)
           = Failure("OverallScoreMismatch", "overall_score")
    /\ Reported(outcome) = Failure("EmptyCommentError", "overall_comment")

(***************************************************************************)
(* C3: a returned AssessmentResult has exactly one entry per rubric        *)
(* criterion id, every score within 0 and the criterion's points + 1e-9,   *)
(* an overall score within 1e-6 of the sum of the entry scores, and        *)
(* comments that are non-empty and neither start nor end with whitespace.  *)
(***************************************************************************)
Trimmed(s) == s # <<>> /\ ~isspace(s[1]) /\ ~isspace(s[Len(s)])

RECURSIVE ResultSum(_, _)
ResultSum(order, criteria) ==
    IF order = <<>> THEN Zero
    ELSE DecAdd(criteria[Head(order)].score, ResultSum(Tail(order), criteria))

C3_ResultWellFormed ==
    (Called /\ outcome.ok) =>
        LET res == outcome.val
            sum == ResultSum(RubricOrder(run.rubric), res.criteria)
        IN  /\ DOMAIN res.criteria = RubricIds(run.rubric)
            /\ \A cid \in RubricIds(run.rubric) :
                  /\ ~DecLess(res.criteria[cid].score, Zero)
                  /\ ~DecLess(DecAdd(MaxPoints(run.rubric, cid), Dec(0, 10)),
                              res.criteria[cid].score)
                  /\ Trimmed(res.criteria[cid].comment)
            /\ ~DecLess(Dec(0, 10000), DecSub(res.overall_score, sum))
            /\ ~DecLess(Dec(0, 10000), DecSub(sum, res.overall_score))
            /\ Trimmed(res.overall_comment)

(* a two-criterion payload whose overall_comment came padded is returned *)
C3_Witness ==
    /\ Called /\ outcome.ok
    /\ Cardinality(RubricIds(run.rubric)) = 2
    /\ Get(Payload, "overall_comment") = PyStr(OkPadded)
    /\ outcome.val.overall_comment = Ok

(***************************************************************************)
(* C4 as stated: two inputs rejected at different steps of the validation  *)
(* carry errors a caller can tell apart by their type.                     *)
(***************************************************************************)
ValidationSteps ==
    {"EmptyInput", "ParseError", "TopLevelNotObject", "TopLevelKeyMismatch",
     "CriterionKeyMismatch", "CriterionShapeMismatch", "ScoreTypeError", "ScoreRangeError",
     "EmptyCommentError", "OverallScoreMismatch"}

StepOf(text) == EarliestFailure(text, run.rubric, FALSE, TRUE).step

RejectedAtDifferentSteps ==
    /\ Called /\ prev.called
    /\ StepOf(prev.text) \in ValidationSteps
    /\ StepOf(model_text) \in ValidationSteps
    /\ StepOf(prev.text) # StepOf(model_text)

C4_TypesDiffer == RejectedAtDifferentSteps => prev.outcome.exc # outcome.exc

(***************************************************************************)
(* C5: for a rubric with criteria, parse_and_validate returns a result or  *)
(* fails with an error of the validation taxonomy, never with another      *)
(* exception.                                                              *)
(***************************************************************************)
C5_Total == (Called /\ Usable) => (outcome.ok \/ outcome.exc = "JSONParseError")

(***************************************************************************)
(* C6: a payload is accepted only if the keys of its criteria object are   *)
(* the rubric criterion ids; with a key removed or a foreign key added it  *)
(* is rejected with the criterion-key-mismatch error, in any key order.    *)
(***************************************************************************)
HasCriteriaObject ==
    /\ Called /\ Usable /\ IsPayload
    /\ Keys(Payload) = {"overall_score", "overall_comment", "criteria"}
    /\ IsObject(Get(Payload, "criteria"))

CriteriaKeys == Keys(Get(Payload, "criteria"))

C6_CriteriaKeysExact ==
    HasCriteriaObject =>
        /\ outcome.ok => CriteriaKeys = RubricIds(run.rubric)
        /\ CriteriaKeys # RubricIds(run.rubric)
               => Reported(outcome) = Failure("CriterionKeyMismatch", "criteria")

(* the full-marks payload with one criterion key removed *)
C6_Witness ==
    /\ HasCriteriaObject
    /\ \E cid \in RubricIds(run.rubric) : CriteriaKeys = RubricIds(run.rubric) \ {cid}
    /\ Reported(outcome) = Failure("CriterionKeyMismatch", "criteria")

(***************************************************************************)
(* C7: for a rubric with criteria, a payload is accepted only if its       *)
(* top-level keys are exactly overall_score, overall_comment and criteria; *)
(* with a key missing or added it is rejected with the top-level key       *)
(* mismatch error whatever criteria holds.                                 *)
(***************************************************************************)
C7_TopLevelKeysExact ==
    (Called /\ Usable /\ IsPayload) =>
        /\ outcome.ok => Keys(Payload) = {"overall_score", "overall_comment", "criteria"}
        /\ Keys(Payload) # {"overall_score", "overall_comment", "criteria"}
               => Reported(outcome) = Failure("TopLevelKeyMismatch", "")

(* an added key, and a criteria value that is not even an object *)
C7_Witness ==
    /\ Called /\ Usable /\ IsPayload
    /\ Keys(Payload) = {"overall_score", "overall_comment", "criteria", "notes"}
    /\ ~IsObject(Get(Payload, "criteria"))
    /\ Reported(outcome) = Failure("TopLevelKeyMismatch", "")

(***************************************************************************)
(* C8 as stated: the criterion-key-mismatch error names every missing      *)
(* rubric id and every key that is no rubric id.                           *)
(***************************************************************************)
KeyMismatchReported ==
    /\ HasCriteriaObject
    /\ Reported(outcome) = Failure("CriterionKeyMismatch", "criteria")

C8_NamesBoth ==
    KeyMismatchReported =>
        outcome.names = (RubricIds(run.rubric) \ CriteriaKeys)
                            \cup (CriteriaKeys \ RubricIds(run.rubric))

(***************************************************************************)
(* C8 amended: the error names the missing rubric ids when there are any,  *)
(* and the keys that are no rubric id only when no rubric id is missing.   *)
(***************************************************************************)
C8_NamesMissingElseExtra ==
    KeyMismatchReported =>
        outcome.names = IF RubricIds(run.rubric) \ CriteriaKeys # {}
                        THEN RubricIds(run.rubric) \ CriteriaKeys
                        ELSE CriteriaKeys \ RubricIds(run.rubric)

(* an id missing and a foreign key present: only the missing id is named *)
C8_Witness ==
    /\ KeyMismatchReported
    /\ RubricIds(run.rubric) \ CriteriaKeys # {}
    /\ CriteriaKeys \ RubricIds(run.rubric) # {}
    /\ outcome.names = RubricIds(run.rubric) \ CriteriaKeys

(***************************************************************************)
(* C9: a numeric score s of a criterion with maximum m passes the range    *)
(* check exactly when 0 <= s <= m + 1e-9; outside it the payload is        *)
(* rejected with the score-range error at that criterion, and an accepted  *)
(* score is returned as given.                                             *)
(***************************************************************************)
HasCriteriaOfRubric == HasCriteriaObject /\ CriteriaKeys = RubricIds(run.rubric)

ReachesRangeCheck(i) ==
    LET order == RubricOrder(run.rubric)
        item == Get(Get(Payload, "criteria"), order[i])
    IN  /\ CriteriaFailure(SubSeq(order, 1, i - 1), Get(Payload, "criteria"),
                           run.rubric, TRUE) = Accepted
        /\ IsObject(item)
        /\ Keys(item) = {"score", "comment"}
        /\ Get(item, "score").j = "num"

C9_RangeCheck ==
    HasCriteriaOfRubric =>
        \A i \in 1..Len(RubricOrder(run.rubric)) :
            ReachesRangeCheck(i) =>
                LET cid == RubricOrder(run.rubric)[i]
                    s == ItemScore(Get(Get(Payload, "criteria"), cid))
                    m == MaxPoints(run.rubric, cid)
                    within == ~DecLess(s, Zero) /\ ~DecLess(DecAdd(m, Dec(0, 10)), s)
                IN  /\ within <=> Reported(outcome) # Failure("ScoreRangeError", cid)
                    /\ outcome.ok => outcome.val.criteria[cid].score = s

(* maximum 10, score 10.0000000005: accepted and returned unchanged *)
C9_Witness ==
    /\ HasCriteriaOfRubric /\ outcome.ok
    /\ MaxPoints(run.rubric, "c1") = Dec(10000, 0)
    /\ ItemScore(Get(Get(Payload, "criteria"), "c1")) = Dec(10000, 5)
    /\ outcome.val.criteria["c1"].score = Dec(10000, 5)

(***************************************************************************)
(* C10 as stated: a payload that passes every per-criterion check and      *)
(* carries a numeric overall_score is accepted when overall_score is       *)
(* within 1e-6 of the sum of the criterion scores and is otherwise         *)
(* rejected with the overall-score-mismatch error.                         *)
(***************************************************************************)
PassesCriteria ==
    /\ HasCriteriaOfRubric
    /\ CriteriaFailure(RubricOrder(run.rubric), Get(Payload, "criteria"),
                       run.rubric, TRUE) = Accepted
    /\ Get(Payload, "overall_score").j = "num"

OverallMinusSum ==
    DecSub(Get(Payload, "overall_score").v,
           ScoresSum(RubricOrder(run.rubric), Get(Payload, "criteria")))

SumAgrees == ~DecLess(Dec(0, 10000), DecAbs(OverallMinusSum))

C10_SumCheckAsStated ==
    PassesCriteria =>
        /\ SumAgrees => Reported(outcome) # Failure("OverallScoreMismatch", "overall_score")
        /\ ~SumAgrees => Reported(outcome) = Failure("OverallScoreMismatch", "overall_score")

(***************************************************************************)
(* C10 amended: a payload that passes every per-criterion check, carries   *)
(* a numeric overall_score and an overall_comment that is a non-empty      *)
(* string is accepted exactly when overall_score is within 1e-6 of the sum *)
(* of the criterion scores, and is otherwise rejected with the             *)
(* overall-score-mismatch error; the rubric's points_total plays no part.  *)
(***************************************************************************)
C10_SumCheck ==
    (PassesCriteria /\ IsComment(Get(Payload, "overall_comment"))) =>
        /\ SumAgrees <=> outcome.ok
        /\ ~SumAgrees => Reported(outcome) = Failure("OverallScoreMismatch", "overall_score")

(* accepted a hair off the sum, under a rubric whose points_total is 100 *)
C10_Witness ==
    /\ PassesCriteria /\ outcome.ok
    /\ OverallMinusSum = Dec(0, 1000)
    /\ run.rubric.points_total = Dec(100000, 0)

(***************************************************************************)
(* C1 as stated: in a sequence of grading runs of one submission, once a   *)
(* run has performed the assessment step for an (attempt, submitted_at,    *)
(* updated_at, body) tuple, no later run that fetches the same tuple       *)
(* generates a text or calls parse_and_validate.                           *)
(***************************************************************************)
Fetched(i) == runs[i].fp # <<>>

Tuple(sub) == <<sub.attempt, sub.submitted_at, sub.updated_at, sub.body>>

SameTuple(j, i) == Fetched(j) /\ Fetched(i) /\ Tuple(runs[j].sub) = Tuple(runs[i].sub)

C1_AtMostOnce ==
    \A j, i \in Runs :
        (j < i /\ runs[j].validated /\ SameTuple(j, i))
            => (~runs[i].generated /\ ~runs[i].validated)

(***************************************************************************)
(* C1 amended: once a run has posted its assessment comment, every later   *)
(* run without --force that fetches the same tuple (and, where             *)
(* submitted_at is empty, the same posted_at) together with that comment   *)
(* skips: it generates no text, does not call parse_and_validate and posts *)
(* nothing.  A run with --force, and a run that follows one which posted   *)
(* no comment, assesses the tuple again.                                   *)
(***************************************************************************)
SameTimes(j, i) ==
    (runs[i].sub.submitted_at \in {PyNone, PyStr(<<>>)})
        => runs[j].sub.posted_at = runs[i].sub.posted_at

C1_SkipsOncePosted ==
    \A j, i \in Runs :
        (j < i /\ runs[j].posted /\ ~runs[i].args.force /\ SameTuple(j, i) /\ SameTimes(j, i))
            => (~runs[i].generated /\ ~runs[i].validated /\ ~runs[i].posted)

(* the first run posted, the second, unforced, saw the same tuple and      *)
(* returned 0 without assessing                                            *)
C1_Witness ==
    /\ runs[1].posted /\ runs[1].validated
    /\ SameTuple(1, 2) /\ SameTimes(1, 2)
    /\ ~runs[2].args.force
    /\ runs[2].pc = "returned" /\ runs[2].rc = 0
    /\ ~runs[2].generated /\ ~runs[2].validated /\ ~runs[2].posted

(***************************************************************************)
(* C11: a payload is accepted only if every score field holds a finite     *)
(* number that is no boolean, and the scores are returned as given; a      *)
(* boolean, string, null, array, object, NaN or infinity in a score field  *)
(* that the validation reaches is rejected with the score-type error of    *)
(* that field.                                                             *)
(***************************************************************************)
NoNumber(v) == v.j \in {"bool", "str", "null", "list", "object", "nan", "inf"}

ReachesCriterionScore(i) ==
    LET order == RubricOrder(run.rubric)
        item == Get(Get(Payload, "criteria"), order[i])
    IN  /\ CriteriaFailure(SubSeq(order, 1, i - 1), Get(Payload, "criteria"),
                           run.rubric, TRUE) = Accepted
        /\ IsObject(item)
        /\ Keys(item) = {"score", "comment"}

ReachesOverallScore ==
    /\ HasCriteriaOfRubric
    /\ CriteriaFailure(RubricOrder(run.rubric), Get(Payload, "criteria"),
                       run.rubric, TRUE) = Accepted

C11_ScoreType ==
    /\ (Called /\ Usable /\ IsPayload /\ outcome.ok) =>
          /\ Get(Payload, "overall_score").j = "num"
          /\ outcome.val.overall_score = Get(Payload, "overall_score").v
          /\ \A cid \in RubricIds(run.rubric) :
                LET score == Get(Get(Get(Payload, "criteria"), cid), "score")
                IN  score.j = "num" /\ outcome.val.criteria[cid].score = score.v
    /\ HasCriteriaOfRubric =>
          \A i \in 1..Len(RubricOrder(run.rubric)) :
             LET cid == RubricOrder(run.rubric)[i]
             IN  (/\ ReachesCriterionScore(i)
                  /\ NoNumber(Get(Get(Get(Payload, "criteria"), cid), "score")))
                     => Reported(outcome) = Failure("ScoreTypeError", cid)
    /\ (ReachesOverallScore /\ NoNumber(Get(Payload, "overall_score")))
          => Reported(outcome) = Failure("ScoreTypeError", "overall_score")

(* true as the score of the second criterion *)
C11_Witness ==
    /\ HasCriteriaOfRubric
    /\ Len(RubricOrder(run.rubric)) = 2
    /\ ReachesCriterionScore(2)
    /\ Get(Get(Get(Payload, "criteria"), "c2"), "score") = PyBool
    /\ Reported(outcome) = Failure("ScoreTypeError", "c2")

(***************************************************************************)
(* C12: a payload is accepted only if every comment field holds a string   *)
(* with a character that is no whitespace, and every returned comment is   *)
(* the input comment without its leading and trailing whitespace; a        *)
(* comment field that the validation reaches and that holds no string or   *)
(* only whitespace is rejected with the empty-comment error of that field. *)
(***************************************************************************)
Inked(s) == {k \in 1..Len(s) : ~(s[k] \in {" ", "\n", "\t"})}

Least(S) == CHOOSE k \in S : \A n \in S : k <= n

Greatest(S) == CHOOSE k \in S : \A n \in S : n <= k

Trim(s) == IF Inked(s) = {} THEN <<>> ELSE SubSeq(s, Least(Inked(s)), Greatest(Inked(s)))

GoodComment(v) == v.j = "str" /\ Inked(v.s) # {}

ReachesCriterionComment(i) ==
    LET cid == RubricOrder(run.rubric)[i]
        score == Get(Get(Get(Payload, "criteria"), cid), "score")
    IN  /\ ReachesCriterionScore(i)
        /\ score.j = "num"
        /\ ~DecLess(score.v, Zero)
        /\ ~DecLess(DecAdd(MaxPoints(run.rubric, cid), Dec(0, 10)), score.v)

C12_Comments ==
    /\ (Called /\ Usable /\ IsPayload /\ outcome.ok) =>
          /\ GoodComment(Get(Payload, "overall_comment"))
          /\ outcome.val.overall_comment = Trim(Get(Payload, "overall_comment").s)
          /\ \A cid \in RubricIds(run.rubric) :
                LET comment == Get(Get(Get(Payload, "criteria"), cid), "comment")
                IN  /\ GoodComment(comment)
                    /\ outcome.val.criteria[cid].comment = Trim(comment.s)
    /\ HasCriteriaOfRubric =>
          \A i \in 1..Len(RubricOrder(run.rubric)) :
             LET cid == RubricOrder(run.rubric)[i]
             IN  (/\ ReachesCriterionComment(i)
                  /\ ~GoodComment(Get(Get(Get(Payload, "criteria"), cid), "comment")))
                     => Reported(outcome) = Failure("EmptyCommentError", cid)
    /\ (/\ ReachesOverallScore
        /\ Get(Payload, "overall_score").j = "num"
        /\ ~GoodComment(Get(Payload, "overall_comment")))
          => Reported(outcome) = Failure("EmptyCommentError", "overall_comment")

(* a criterion comment with a tab in front, a space inside and one behind *)
C12_Witness ==
    /\ HasCriteriaOfRubric /\ outcome.ok
    /\ Get(Get(Get(Payload, "criteria"), "c1"), "comment") = PyStr(TwoWordsPadded)
    /\ outcome.val.criteria["c1"].comment = TwoWords

(***************************************************************************)
(* C13: an AssessmentResult consistent with a valid rubric (criteria with  *)
(* distinct ids and numeric points), written as the JSON object of the     *)
(* wire contract, is accepted by parse_and_validate, which returns a       *)
(* result with the same overall_score, overall_comment and criterion       *)
(* scores and comments.                                                    *)
(***************************************************************************)
C13_RoundTrip ==
    (vpc = "done" /\ assessment # NoAssessment) =>
        /\ outcome.ok
        /\ outcome.val.overall_score = assessment.overall_score
        /\ outcome.val.overall_comment = assessment.overall_comment
        /\ DOMAIN outcome.val.criteria = DOMAIN assessment.criteria
        /\ \A cid \in DOMAIN assessment.criteria :
              /\ outcome.val.criteria[cid].score = assessment.criteria[cid].score
              /\ outcome.val.criteria[cid].comment = assessment.criteria[cid].comment

(* two criteria written in reverse order, one score a hair below its       *)
(* maximum, a comment of two words                                         *)
C13_Witness ==
    /\ vpc = "done" /\ assessment # NoAssessment /\ outcome.ok
    /\ DOMAIN assessment.criteria = {"c1", "c2"}
    /\ model_text.body.val.pairs[3][2].pairs[1][1] = "c2"
    /\ assessment.criteria["c1"].score = DecSub(Ten, Dec(0, 1))
    /\ assessment.criteria["c2"].comment = TwoWords
    /\ outcome.val.criteria["c1"].score = DecSub(Ten, Dec(0, 1))

(***************************************************************************)
(* The fingerprint, as the claims speak of it.                             *)
(***************************************************************************)
FingerprintsComputed == Len(states) = 2 /\ Len(fingerprints) = 2

(* the four fields as Canvas gave them *)
Fields(s) == <<s.attempt, s.submitted_at, s.updated_at, s.body>>

(* a field as text: the empty text when it is absent, empty or no text *)
TextOf(v) == IF v.j = "str" THEN v.s ELSE <<>>

(* the fields as the fingerprint reads them: the time of submission is     *)
(* submitted_at, or posted_at when submitted_at is absent or empty         *)
FieldsRead(s) ==
    <<s.attempt,
      IF TextOf(s.submitted_at) # <<>> THEN TextOf(s.submitted_at) ELSE TextOf(s.posted_at),
      TextOf(s.updated_at),
      TextOf(s.body)>>

(***************************************************************************)
(* C14 as stated: two submission states have the same fingerprint if and   *)
(* only if they agree on attempt, submitted_at, updated_at and body.       *)
(***************************************************************************)
C14_SeparatesTuples ==
    FingerprintsComputed =>
        (fingerprints[1] = fingerprints[2] <=> Fields(states[1]) = Fields(states[2]))

(***************************************************************************)
(* C14, amended: two submission states have the same fingerprint if and    *)
(* only if they agree on the attempt, on the time of submission            *)
(* (submitted_at, or posted_at when submitted_at is absent or empty), on   *)
(* updated_at and on the body, where an absent field, an empty text and a  *)
(* body that is not text count as the same.                                *)
(***************************************************************************)
C14_SeparatesFieldsRead ==
    FingerprintsComputed =>
        (fingerprints[1] = fingerprints[2] <=> FieldsRead(states[1]) = FieldsRead(states[2]))

(* the same four fields and another fingerprint, because posted_at differs *)
C14_Witness ==
    /\ FingerprintsComputed
    /\ Fields(states[1]) = Fields(states[2])
    /\ states[1].submitted_at = PyNone
    /\ states[1].posted_at # states[2].posted_at
    /\ fingerprints[1] # fingerprints[2]

(* the attempt slot: the attempt number in decimal, or ? *)
AttemptSlot(a) ==
    CASE a = PyNone -> <<"?">>
      [] a = PyInt(0) -> <<"0">>
      [] a = PyInt(1000) -> <<"1">>
      [] a = PyInt(2000) -> <<"2">>

BodyText(s) == IF s.body.j = "str" THEN s.body.s ELSE <<>>

(* the form with the given label of the hash and the given time of         *)
(* submission                                                              *)
CanonicalForm(s, submitted, label) ==
    <<"attempt=">> \o AttemptSlot(s.attempt)
        \o <<"|submitted_at=">> \o submitted
        \o <<"|updated_at=">> \o TextOf(s.updated_at)
        \o <<label, _sha256_text(BodyText(s))>>

(***************************************************************************)
(* C15 as stated: the fingerprint is                                       *)
(* attempt=<n|?>|submitted_at=<ts>|updated_at=<ts>|body_hash=<hex>, an     *)
(* absent timestamp being the empty string.                                *)
(***************************************************************************)
C15_CanonicalFormAsStated ==
    \A k \in 1..Len(fingerprints) :
        fingerprints[k] = CanonicalForm(states[k], TextOf(states[k].submitted_at), "|body_hash=")

(***************************************************************************)
(* C15, amended: the fingerprint is                                        *)
(* attempt=<n|?>|submitted_at=<ts>|updated_at=<ts>|body_sha256=<hex>,      *)
(* where the attempt slot is the attempt number or ? when the attempt is   *)
(* absent, the first timestamp is submitted_at, or posted_at when          *)
(* submitted_at is absent or empty, an absent timestamp is the empty       *)
(* string, and <hex> is the SHA-256 hex digest of the body, of the empty   *)
(* string when the body is absent or not text; the marker is the prefix    *)
(* aigrader_fingerprint:, one space, and this string.                      *)
(***************************************************************************)
C15_CanonicalForm ==
    \A k \in 1..Len(fingerprints) :
        /\ fingerprints[k] = CanonicalForm(states[k], FieldsRead(states[k])[2], "|body_sha256=")
        /\ get_fingerprint_marker(fingerprints[k])
              = <<"aigrader_fingerprint:", " ">> \o fingerprints[k]

(* an attempt of 0 with every other field absent, and a state without      *)
(* attempt whose time of submission is posted_at                           *)
C15_Witness ==
    /\ FingerprintsComputed
    /\ states[1].attempt = PyInt(0) /\ states[1].submitted_at = PyNone
    /\ states[1].posted_at = PyNone /\ states[1].updated_at = PyNone
    /\ states[1].body = PyInt(5000)
    /\ fingerprints[1] = <<"attempt=", "0", "|submitted_at=", "|updated_at=", "|body_sha256=",
                           "e3b0c44298fc1c149afbf4c8996fb92427ae41e4649b934ca495991b7852b855">>
    /\ states[2].attempt = PyNone /\ states[2].submitted_at = PyStr(<<>>)
    /\ states[2].posted_at = T2
    /\ fingerprints[2][2] = "?" /\ SubSeq(fingerprints[2], 4, 5) = <<"t", "2">>

(***************************************************************************)
(* already_assessed, as the claims speak of it.                            *)
(***************************************************************************)
MarkerOf(fp) == <<"aigrader_fingerprint:", " ">> \o fp

(* part lies in txt, between two of its positions *)
Contains(txt, part) ==
    \E a \in 0..Len(txt) : \E b \in a..Len(txt) : SubSeq(txt, a + 1, b) = part

(* the texts of the comments on the submission *)
ExistingComments(s) ==
    IF s.submission_comments.j # "list" THEN {}
    ELSE {s.submission_comments.items[k].d.comment.s :
             k \in {n \in 1..Len(s.submission_comments.items) :
                       /\ s.submission_comments.items[n].j = "dict"
                       /\ s.submission_comments.items[n].d.comment.j = "str"}}

AssessedCalled == Len(states) = 1 /\ assessed # <<>>

(***************************************************************************)
(* C16: already_assessed(submission, fp) is true if and only if one of the *)
(* submission's comments contains the marker (prefix, one space, fp) as a  *)
(* substring, hence false without comments; and the call leaves the        *)
(* submission as it was.                                                   *)
(***************************************************************************)
C16_AlreadyAssessed ==
    /\ [](AssessedCalled =>
            (assessed[1] <=> \E txt \in ExistingComments(states[1]) :
                                Contains(txt, MarkerOf(fingerprints[1]))))
    /\ [][states' = states]_vars

(* two comments, the first with the marker of another state, the second an *)
(* assessment that ends with the marker                                    *)
C16_Witness ==
    /\ AssessedCalled
    /\ assessed[1]
    /\ states[1].submission_comments.j = "list"
    /\ Len(states[1].submission_comments.items) = 2
    /\ \A k \in 1..2 : /\ states[1].submission_comments.items[k].j = "dict"
                       /\ states[1].submission_comments.items[k].d.comment.j = "str"
    /\ ~Contains(states[1].submission_comments.items[1].d.comment.s, MarkerOf(fingerprints[1]))
    /\ states[1].submission_comments.items[2].d.comment.s
          = <<"AI assessment", "\n\n">> \o MarkerOf(fingerprints[1])

(***************************************************************************)
(* The revision metrics, as the claims speak of them.                      *)
(***************************************************************************)
Compared == Len(texts) = 2 /\ metrics # <<>>

(* the comparison made last; the earlier one was looked at when it was     *)
(* the last                                                                *)
LatestComparison == IF metrics = <<>> THEN {} ELSE {Len(metrics)}

(* the arguments of the k-th comparison *)
PreviousText(k) == IF k = 1 THEN texts[1] ELSE texts[2]

CurrentText(k) == IF k = 1 THEN texts[2] ELSE texts[1]

(* the normalized forms of the sentences of a text, in order *)
NormalizedSentences(t) ==
    LET sentences == _split_sentences(t)
    IN  [i \in 1..Len(sentences) |-> _norm_sentence(sentences[i])]

(* U, the number of the sentences of previous whose normalized form is     *)
(* that of a sentence of current, both given in normalized form            *)
CountUnchanged(previous, current) ==
    LET forms == {current[n] : n \in 1..Len(current)}
    IN  Cardinality({i \in 1..Len(previous) : previous[i] \in forms})

(* the quotient q is n / d *)
IsQuotient(q, n, d) == q.n * d = n * q.d

(***************************************************************************)
(* C17: sentence_change_pct is 100 * (P - U) / max(1, P), with P the       *)
(* number of previous sentences and U the number of them whose normalized  *)
(* form is among the normalized current sentences; it is 0 without         *)
(* previous sentences and lies between 0 and 100.                          *)
(***************************************************************************)
C17_SentenceChangePct ==
    \A k \in LatestComparison :
        LET pct == metrics[k].m.sentence_change_pct
            previous == NormalizedSentences(PreviousText(k))
            current == NormalizedSentences(CurrentText(k))
            P == Len(previous)
            U == CountUnchanged(previous, current)
        IN  /\ IsQuotient(pct, 100 * (P - U), IF P >= 1 THEN P ELSE 1)
            /\ P = 0 => pct.n = 0
            /\ 0 <= pct.n /\ pct.n <= 100 * pct.d

(* the previous text has the same sentence twice and a third one, the      *)
(* current text has the third only: two of three changed                   *)
C17_Witness ==
    /\ Compared
    /\ LET previous == NormalizedSentences(PreviousText(1))
           current == NormalizedSentences(CurrentText(1))
       IN  /\ Len(previous) = 3
           /\ previous[1] = previous[2]
           /\ CountUnchanged(previous, current) = 1
    /\ metrics[1].m.sentence_change_pct = [n |-> 200, d |-> 3]

IsTokenChar(c) == c \in {"a", "b", "A", "B", "0", "1", "'"}

LowerCase(w) == [i \in 1..Len(w) |-> IF w[i] = "A" THEN "a" ELSE IF w[i] = "B" THEN "b" ELSE w[i]]

(* the set of the lowercase word tokens of a text: its longest stretches   *)
(* of letters, digits and apostrophes, in lower case                       *)
WordTokens(t) ==
    LET starts == {a \in 1..Len(t) :
                      IsTokenChar(t[a]) /\ (a > 1 => ~IsTokenChar(t[a - 1]))}
        ends == {b \in 1..Len(t) :
                      IsTokenChar(t[b]) /\ (b < Len(t) => ~IsTokenChar(t[b + 1]))}
    IN  {LowerCase(SubSeq(t, a, CHOOSE b \in ends : b >= a /\ \A n \in ends : n >= a => b <= n)) :
            a \in starts}

(***************************************************************************)
(* C18: word_overlap_pct is 100 * |A /\ B| / |A \/ B| over the sets of     *)
(* lowercase word tokens of the two texts, and 100 when both sets are      *)
(* empty; it lies between 0 and 100, is 0 when the texts share no token    *)
(* and one of them has a token, and is the same when the two texts are     *)
(* exchanged.                                                              *)
(***************************************************************************)
C18_WordOverlapPct ==
    /\ \A k \in LatestComparison :
          LET pct == metrics[k].m.word_overlap_pct
              A == WordTokens(PreviousText(k))
              B == WordTokens(CurrentText(k))
          IN  /\ A \cup B # {} =>
                    IsQuotient(pct, 100 * Cardinality(A \cap B), Cardinality(A \cup B))
              /\ A \cup B = {} => pct = [n |-> 100, d |-> 1]
              /\ 0 <= pct.n /\ pct.n <= 100 * pct.d
              /\ (A \cap B = {} /\ A \cup B # {}) => pct.n = 0
    /\ Len(metrics) = 2 => metrics[1].m.word_overlap_pct = metrics[2].m.word_overlap_pct

(* the texts share one of two words, in different case, and both           *)
(* comparisons give 50                                                     *)
C18_Witness ==
    /\ Len(texts) = 2 /\ Len(metrics) = 2
    /\ WordTokens(texts[1]) = {<<"a">>, <<"b">>}
    /\ WordTokens(texts[2]) = {<<"a">>}
    /\ "A" \in {texts[2][n] : n \in 1..Len(texts[2])}
    /\ metrics[1].m.word_overlap_pct = [n |-> 50, d |-> 1]
    /\ metrics[2].m.word_overlap_pct = [n |-> 50, d |-> 1]

Labelled(k) == k \in 1..Len(metrics) /\ metrics[k].depth # "unlabelled"

(* the rate of the k-th metrics value is at least n *)
AtLeast(k, n) == metrics[k].m.sentence_change_pct.n >= n * metrics[k].m.sentence_change_pct.d

DepthRank(depth) ==
    CASE depth = "light" -> 1 [] depth = "moderate" -> 2 [] depth = "substantial" -> 3

(***************************************************************************)
(* C19: the depth label is substantial when sentence_change_pct is at      *)
(* least 70, moderate when it is at least 35 and below 70, light           *)
(* otherwise; it is one of the three labels, depends on                    *)
(* sentence_change_pct alone, and does not fall when sentence_change_pct   *)
(* rises.                                                                  *)
(***************************************************************************)
C19_DepthLabel ==
    /\ \A k \in 1..Len(metrics) : Labelled(k) =>
          /\ metrics[k].depth \in {"light", "moderate", "substantial"}
          /\ metrics[k].depth = "substantial" <=> AtLeast(k, 70)
          /\ metrics[k].depth = "moderate" <=> (AtLeast(k, 35) /\ ~AtLeast(k, 70))
          /\ metrics[k].depth = "light" <=> ~AtLeast(k, 35)
    /\ (Labelled(1) /\ Labelled(2)) =>
          LET c1 == metrics[1].m.sentence_change_pct
              c2 == metrics[2].m.sentence_change_pct
          IN  /\ c1 = c2 => metrics[1].depth = metrics[2].depth
              /\ c1.n * c2.d <= c2.n * c1.d =>
                    DepthRank(metrics[1].depth) <= DepthRank(metrics[2].depth)

(* rates of 69 and 70: moderate and substantial, whatever the word overlap *)
C19_Witness ==
    /\ texts = <<>>
    /\ Labelled(1) /\ Labelled(2)
    /\ metrics[1].m.sentence_change_pct = [n |-> 69, d |-> 1]
    /\ metrics[2].m.sentence_change_pct = [n |-> 70, d |-> 1]
    /\ metrics[2].m.word_overlap_pct = [n |-> 100, d |-> 1]
    /\ metrics[1].depth = "moderate"
    /\ metrics[2].depth = "substantial"

(* the k-th comparison reports no change *)
ReportsNoChange(k) ==
    LET m == metrics[k].m
    IN  /\ m.sentence_change_pct = [n |-> 0, d |-> 1]
        /\ metrics[k].depth = "light"
        /\ m.avg_sentence_length_before = m.avg_sentence_length_after
        /\ m.sentence_length_variance_before = m.sentence_length_variance_after
        /\ m.paragraph_count_before = m.paragraph_count_after

(* the texts of the k-th comparison have no sentence, in normalized form,  *)
(* and no word in common                                                   *)
NothingInCommon(k) ==
    LET previous == NormalizedSentences(PreviousText(k))
        current == NormalizedSentences(CurrentText(k))
    IN  /\ \A i \in 1..Len(previous) : \A n \in 1..Len(current) : previous[i] # current[n]
        /\ WordTokens(PreviousText(k)) \cap WordTokens(CurrentText(k)) = {}

(***************************************************************************)
(* C20 as stated: a text compared with itself gives sentence_change_pct 0, *)
(* the label light and equal before and after values; two texts with no    *)
(* sentence and no word in common, the previous one not empty, give        *)
(* sentence_change_pct 100, word_overlap_pct 0 and the label substantial.  *)
(***************************************************************************)
C20_SelfAndDisjointAsStated ==
    \A k \in LatestComparison :
        /\ texts[1] = texts[2] => ReportsNoChange(k)
        /\ (NothingInCommon(k) /\ PreviousText(k) # <<>>) =>
              /\ metrics[k].m.sentence_change_pct = [n |-> 100, d |-> 1]
              /\ metrics[k].m.word_overlap_pct = [n |-> 0, d |-> 1]
              /\ metrics[k].depth = "substantial"

(***************************************************************************)
(* C20, amended: a text compared with itself gives sentence_change_pct 0,  *)
(* the label light and equal before and after values; two texts with no    *)
(* normalized sentence and no word in common give sentence_change_pct 100  *)
(* and the label substantial when the previous text has a sentence, and    *)
(* word_overlap_pct 0 when one of the texts has a word; a previous text    *)
(* without sentence gives sentence_change_pct 0 and the label light, and   *)
(* two texts without words give word_overlap_pct 100.                      *)
(***************************************************************************)
C20_SelfAndDisjoint ==
    \A k \in LatestComparison :
        /\ texts[1] = texts[2] => ReportsNoChange(k)
        /\ NothingInCommon(k) =>
              /\ IF NormalizedSentences(PreviousText(k)) # <<>>
                 THEN /\ metrics[k].m.sentence_change_pct = [n |-> 100, d |-> 1]
                      /\ metrics[k].depth = "substantial"
                 ELSE /\ metrics[k].m.sentence_change_pct = [n |-> 0, d |-> 1]
                      /\ metrics[k].depth = "light"
              /\ IF WordTokens(PreviousText(k)) \cup WordTokens(CurrentText(k)) # {}
                 THEN metrics[k].m.word_overlap_pct = [n |-> 0, d |-> 1]
                 ELSE metrics[k].m.word_overlap_pct = [n |-> 100, d |-> 1]

(* a previous text of terminators alone, which has no sentence, against a  *)
(* current text of one sentence: no change is reported                     *)
C20_Witness ==
    /\ Compared
    /\ texts[1] = <<".", ".", "\n">>
    /\ texts[2] = <<"a", ".", "\n">>
    /\ NothingInCommon(1)
    /\ metrics[1].m.sentence_change_pct = [n |-> 0, d |-> 1]
    /\ metrics[1].m.word_overlap_pct = [n |-> 0, d |-> 1]
    /\ metrics[1].depth = "light"

(***************************************************************************)
(* C21 as stated: a run that finds the marker of the freshly computed      *)
(* fingerprint and is not forced returns 0 without calling the text        *)
(* generator, without calling parse_and_validate and without posting a     *)
(* comment, with or without --print-prompts; a forced run goes on to the   *)
(* assessment whatever the comments hold.                                  *)
(***************************************************************************)
MarkerPosted(fp) ==
    \E k \in 1..Len(comments) : Contains(comments[k].comment, MarkerOf(fp))

Acts(i) == runs'[i] # runs[i]

Unassessed(r) == ~r.generated /\ ~r.validated /\ ~r.posted

(* the step that fetches the submission and looks for the marker *)
ChecksMarker(i) == runs[i].pc = "fetch" /\ Acts(i)

(* the step from the first check of the marker to the second *)
PrintsPrompts(i) == runs[i].pc = "prompts" /\ Acts(i)

Assessing(i) == runs[i].pc \in {"generate", "validate", "post"}

C21_SkipReturnsZero ==
    [][\A i \in Runs :
         /\ (ChecksMarker(i) /\ MarkerPosted(runs'[i].fp) /\ ~runs[i].args.force) =>
               \/ runs'[i].pc = "returned" /\ runs'[i].rc = 0 /\ Unassessed(runs'[i])
               \/ runs'[i].pc = "prompts" /\ runs[i].args.print_prompts
         /\ (PrintsPrompts(i) /\ runs[i].already /\ ~runs[i].args.force) =>
               /\ runs'[i].pc = "returned" /\ runs'[i].rc = 0 /\ Unassessed(runs'[i])
               /\ comments' = comments
         /\ (ChecksMarker(i) /\ runs[i].args.force) => runs'[i].pc = "prompts"
         /\ (PrintsPrompts(i) /\ runs[i].args.force) =>
               runs'[i].pc \in {"generate", "raised"}]_vars

(***************************************************************************)
(* C21 amended: a run that finds the marker of the freshly computed        *)
(* fingerprint and is not forced never calls the text generator or         *)
(* parse_and_validate and posts no comment.  Without --print-prompts it    *)
(* returns 0 at once; with --print-prompts it first fetches the assignment *)
(* description and builds the prompts, and returns 0 unless that raises.   *)
(* A forced run is never stopped by the marker: it goes on to the text     *)
(* generator unless fetching the description or building the prompts       *)
(* raises.                                                                 *)
(***************************************************************************)
C21_SkipNeverAssesses ==
    /\ [](\A i \in Runs :
            /\ Assessing(i) => (runs[i].args.force \/ ~runs[i].already)
            /\ (runs[i].pc = "returned" /\ runs[i].args.force) =>
                  (runs[i].generated /\ runs[i].validated))
    /\ [][\A i \in Runs :
            /\ (ChecksMarker(i) /\ MarkerPosted(runs'[i].fp) /\ ~runs[i].args.force) =>
                  /\ comments' = comments
                  /\ IF runs[i].args.print_prompts
                     THEN runs'[i].pc = "prompts" /\ runs'[i].already
                     ELSE runs'[i].pc = "returned" /\ runs'[i].rc = 0
                             /\ Unassessed(runs'[i])
            /\ (PrintsPrompts(i) /\ runs[i].already /\ ~runs[i].args.force) =>
                  /\ \/ runs'[i].pc = "returned" /\ runs'[i].rc = 0
                     \/ runs'[i].pc = "raised"
                  /\ Unassessed(runs'[i])
                  /\ comments' = comments
            /\ (ChecksMarker(i) /\ runs[i].args.force) => runs'[i].pc = "prompts"
            /\ (PrintsPrompts(i) /\ runs[i].args.force) =>
                  runs'[i].pc \in {"generate", "raised"}]_vars

(* the second run, not forced, found the marker the first run had posted   *)
(* for the same fingerprint, went on to print the prompts and ended with   *)
(* the exception of the description fetch, having assessed nothing         *)
C21_Witness ==
    /\ runs[1].posted
    /\ runs[2].fp = runs[1].fp
    /\ MarkerPosted(runs[2].fp)
    /\ ~runs[2].args.force
    /\ runs[2].pc = "raised"
    /\ Unassessed(runs[2])

(***************************************************************************)
(* C22: a run that posts its comment, as plain text or as HTML, appends    *)
(* one comment that contains the marker of the fingerprint the run         *)
(* computed; so a later run without --force that fetches the same          *)
(* submission object, that comment with it, computes the same fingerprint, *)
(* finds the marker and skips: it never reaches the text generator,        *)
(* parse_and_validate or the posting of a comment.                         *)
(***************************************************************************)
SubmissionFields == {"attempt", "submitted_at", "posted_at", "updated_at", "body"}

SameSubmission(j, i) ==
    Fetched(j) /\ Fetched(i) /\ \A f \in SubmissionFields : runs[j].sub[f] = runs[i].sub[f]

Posts(i) == runs[i].pc = "post" /\ comments' # comments /\ Acts(i)

C22_MarkerStamped ==
    /\ [][\A i \in Runs :
            Posts(i) =>
               /\ runs'[i].posted /\ runs'[i].pc = "returned" /\ runs'[i].rc = 0
               /\ Len(comments') = Len(comments) + 1
               /\ SubSeq(comments', 1, Len(comments)) = comments
               /\ Contains(comments'[Len(comments')].comment, MarkerOf(runs[i].fp))]_vars
    /\ [](\A j, i \in Runs :
            (j < i /\ runs[j].posted /\ ~runs[i].args.force /\ SameSubmission(j, i)) =>
               /\ runs[i].fp = runs[j].fp
               /\ MarkerPosted(runs[i].fp)
               /\ runs[i].pc = "prompts" => runs[i].already
               /\ ~Assessing(i)
               /\ Unassessed(runs[i])
               /\ runs[i].pc = "returned" => runs[i].rc = 0)

(* the first run posted its assessment as HTML, the submission stayed as   *)
(* it was, and the second run, not forced, returned 0 without assessing    *)
C22_Witness ==
    /\ runs[1].posted /\ runs[1].pc = "returned" /\ runs[1].rc = 0
    /\ Len(comments) = 1
    /\ Contains(comments[1].comment, <<"<p><em>">> \o MarkerOf(runs[1].fp) \o <<"</em></p>">>)
    /\ changes = 0
    /\ SameSubmission(1, 2)
    /\ ~runs[2].args.force
    /\ runs[2].pc = "returned" /\ runs[2].rc = 0
    /\ Unassessed(runs[2])

(***************************************************************************)
(* C23: a run posts its comment only after parse_and_validate has returned *)
(* an AssessmentResult to it; a run in which the text generator or the     *)
(* validation raises ends without a comment of its own and leaves the      *)
(* comments of the submission as they were, so a later run that fetches    *)
(* the same submission is not skipped on its account: it is skipped only   *)
(* if yet another run posted a comment for that fingerprint.               *)
(***************************************************************************)
Raises(i) == runs[i].pc \in {"generate", "validate"} /\ runs'[i].pc = "raised"

Skipped(i) ==
    \/ runs[i].pc = "prompts" /\ runs[i].already /\ ~runs[i].args.force
    \/ runs[i].pc = "returned" /\ ~runs[i].generated

PostedByAnother(j, i) ==
    \E k \in Runs \ {j, i} : runs[k].posted /\ runs[k].fp = runs[i].fp

MarkerComments(fp) ==
    {k \in 1..Len(comments) : Contains(comments[k].comment, MarkerOf(fp))}

C24_AtMostOnePosts ==
    \A j, i \in Runs :
        (j # i /\ ~runs[j].args.force /\ ~runs[i].args.force
               /\ runs[j].posted /\ SameSubmission(j, i))
            => /\ ~runs[i].posted
               /\ Cardinality(MarkerComments(runs[j].fp)) <= 1

(***************************************************************************)
(* C25: grade_one_assignment gives every user id of its list to            *)
(* _grade_one_submission exactly once, in the order of the list, whatever  *)
(* the earlier calls did; it returns 1 exactly when a call raised or       *)
(* returned nonzero, and 0 otherwise, also when every student was skipped  *)
(* and when there is no gradeable submission.                              *)
(***************************************************************************)
StudentFailed(o) == o \in {"raised", "nonzero"}

GradeableUsers ==
    {u \in Users : \E k \in 1..Len(students.subs) :
                      /\ students.subs[k].isinstance_int
                      /\ students.subs[k].user_id = u
                      /\ students.subs[k].workflow_state = "submitted"
                      /\ students.subs[k].has_content}

(* the list of the call: the one id of --user-id, or the gradeable ids in  *)
(* ascending order                                                         *)
IsTheList(ids) ==
    IF students.args_user_id # 0 THEN ids = <<students.args_user_id>>
    ELSE /\ {ids[k] : k \in 1..Len(ids)} = GradeableUsers
         /\ \A k \in 1..(Len(ids) - 1) : ids[k] < ids[k + 1]

C25_EveryStudentOnce ==
    /\ students.pc \in {"loop", "returned"} =>
          /\ Len(students.called) <= Len(students.user_ids)
          /\ students.called = SubSeq(students.user_ids, 1, Len(students.called))
          /\ Len(students.outcomes) = Len(students.called)
    /\ students.pc = "loop" => IsTheList(students.user_ids)
    /\ students.pc = "returned" =>
          /\ students.called = students.user_ids
          /\ students.user_ids # <<>> => IsTheList(students.user_ids)
          /\ students.user_ids = <<>> => (students.args_user_id = 0 /\ GradeableUsers = {})
          /\ students.rc \in {0, 1}
          /\ students.rc = 1 <=>
                \E k \in 1..Len(students.outcomes) : StudentFailed(students.outcomes[k])

(* three students: the first raised, the second returned nonzero, the      *)
(* third was skipped all the same, and the call returned 1                 *)
C25_Witness ==
    /\ students.pc = "returned"
    /\ students.called = <<1, 2, 3>>
    /\ students.outcomes = <<"raised", "nonzero", "skipped">>
    /\ students.rc = 1

(***************************************************************************)
(* C26: process_assignments returns a BatchResult whose total is the       *)
(* number of assignments it was given, whose failed is the length of       *)
(* failures and whose succeeded and failed add up to total; after every    *)
(* pass of the loop, succeeded plus the number of recorded failures is the *)
(* number of assignments processed so far.                                 *)
(***************************************************************************)
InBatchLoop == batch.pc \in {"loop", "returned"}

(* the list process_assignments was given: that of the caller, or the      *)
(* specifications of the file that process_assignment_file passed on       *)
GivenAssignments ==
    IF batch.skip_disabled THEN SelectSeq(batch.specs, LAMBDA s : s.enabled)
    ELSE batch.specs

C26_Counts ==
    /\ InBatchLoop =>
          /\ batch.succeeded + Len(batch.failures) = Len(batch.called)
          /\ batch.total = Len(batch.assignments)
    /\ batch.pc = "returned" =>
          /\ batch.result.total = Len(GivenAssignments)
          /\ batch.result.failed = Len(batch.result.failures)
          /\ batch.result.succeeded + batch.result.failed = batch.result.total
          /\ batch.result.succeeded >= 0

(* three assignments: one callback returned 0, one returned 1 and one      *)
(* raised                                                                  *)
C26_Witness ==
    /\ batch.pc = "returned"
    /\ batch.result.total = 3
    /\ batch.result.succeeded = 1
    /\ batch.result.failed = 2
    /\ \E k \in 1..3 : batch.outcomes[k].raised
    /\ \E k \in 1..3 : ~batch.outcomes[k].raised /\ batch.outcomes[k].rc # 0

(***************************************************************************)
(* C27: process_assignments calls the callback once for every assignment   *)
(* of its list, in the order of the list, whatever the earlier callbacks   *)
(* did; failures lists the assignments whose callback raised or returned   *)
(* nonzero, and no others, in the order they were processed; and with      *)
(* skip_disabled the callback of a disabled assignment is never called.    *)
(***************************************************************************)
CallbackFailed(o) == o.raised \/ o.rc # 0

(* the positions of the callbacks that failed, in ascending order *)
FailedCalls ==
    SelectSeq([k \in 1..Len(batch.called) |-> k], LAMBDA k : CallbackFailed(batch.outcomes[k]))

C27_CallbackPerAssignment ==
    InBatchLoop =>
       /\ Len(batch.called) <= Len(GivenAssignments)
       /\ batch.called = SubSeq(GivenAssignments, 1, Len(batch.called))
       /\ Len(batch.outcomes) = Len(batch.called)
       /\ batch.pc = "returned" =>
             (batch.called = GivenAssignments /\ batch.result.failures = batch.failures)
       /\ Len(batch.failures) = Len(FailedCalls)
       /\ \A n \in 1..Len(FailedCalls) :
             LET spec == batch.called[FailedCalls[n]]
                 o == batch.outcomes[FailedCalls[n]]
             IN  /\ batch.failures[n][1] = spec.course_id
                 /\ batch.failures[n][2] = spec.assignment_id
                 /\ batch.failures[n][3] = IF o.raised THEN <<o.type, ": ", o.message>>
                                           ELSE <<"nonzero return">>
       /\ batch.skip_disabled => \A k \in 1..Len(batch.called) : batch.called[k].enabled

(* a file of three specifications, the second one disabled: the callback   *)
(* of the first raised, that of the third was called all the same and      *)
(* returned nonzero, and that of the second was never called               *)
C27_Witness ==
    /\ batch.pc = "returned"
    /\ batch.entry = "file" /\ batch.skip_disabled
    /\ Len(batch.specs) = 3
    /\ ~batch.specs[2].enabled
    /\ batch.called = <<batch.specs[1], batch.specs[3]>>
    /\ batch.outcomes[1].raised
    /\ ~batch.outcomes[2].raised /\ batch.outcomes[2].rc = 1
    /\ Len(batch.result.failures) = 2


(***************************************************************************)
(* The history entries that bear an attempt number below the current one.  *)
(***************************************************************************)
HistoryItems == IF picked.submission_history.j = "list" THEN picked.submission_history.items ELSE <<>>

AttemptOf(h) == IF h.j = "dict" THEN _as_int_or_none(h.d.attempt) ELSE PyNone

CurrentAttempt == _as_int_or_none(picked.attempt)

EarlierEntries ==
    {k \in 1..Len(HistoryItems) :
        /\ AttemptOf(HistoryItems[k]).j # "null"
        /\ IntOf(AttemptOf(HistoryItems[k])) < IntOf(CurrentAttempt)}

IsLatestEarlier(h) ==
    \E k \in EarlierEntries :
        /\ h = HistoryItems[k]
        /\ \A n \in EarlierEntries :
              IntOf(AttemptOf(HistoryItems[n])) <= IntOf(AttemptOf(HistoryItems[k]))

(* C28: with the current attempt number known, the function returns a      *)
(* history entry with the largest attempt number below the current one     *)
(* whenever there is such an entry, in whatever order the history is       *)
(* listed, and returns None only when no entry has a smaller attempt       *)
(* number.                                                                 *)
C28_LatestEarlierAttempt ==
    (picked.pc \in {"ready", "done"} /\ CurrentAttempt.j # "null") =>
        \A n \in 1..Len(picked.results) :
            IF EarlierEntries # {} THEN IsLatestEarlier(picked.results[n])
            ELSE picked.results[n].j = "null"


(***************************************************************************)
(* What one call of _request has done so far.                              *)
(***************************************************************************)
RetryableStatuses == {500, 502, 503, 504}

LastStatus == request.statuses[Len(request.statuses)]

RequestEnded == request.pc = "done"

AnsweredLast == RequestEnded /\ request.sent = Len(request.statuses) /\ request.sent > 0

RequestBounded ==
    request.pc \in {"loop", "done"} =>
        /\ request.sent <= request.max_retries
        /\ \A k \in 1..(request.sent - 1) : request.statuses[k] \in RetryableStatuses

RaisesAtOnce ==
    (AnsweredLast /\ LastStatus >= 400 /\ LastStatus \notin RetryableStatuses) =>
        /\ request.result.k = "raised"
        /\ request.result.type = "CanvasAPIError"
        /\ request.result.status_code = LastStatus

RaisesLast ==
    (AnsweredLast /\ LastStatus \in RetryableStatuses) =>
        /\ request.sent = request.max_retries
        /\ request.result.k = "raised"
        /\ request.result.type = "CanvasAPIError"
        /\ request.result.status_code = LastStatus
        /\ request.result = request.last

(* C29 as stated: one call sends at most max_retries requests, returns on  *)
(* the first response with a status below 400, sends again only after a    *)
(* 500, 502, 503 or 504, raises CanvasAPIError at once on any other status *)
(* of 400 or above, raises the error of the last response after            *)
(* max_retries such failures, and always ends.                             *)
C29_ReturnsOnFirstSuccess ==
    /\ [](/\ RequestBounded
          /\ (AnsweredLast /\ LastStatus < 400) => request.result.k = "returned"
          /\ RaisesAtOnce
          /\ RaisesLast)
    /\ <>RequestEnded

(* C29, amended: one call sends at most max_retries requests; it ends on   *)
(* the first response with a status below 400, returning None for a blank  *)
(* body and the parsed body otherwise, or raising the decoding error when  *)
(* the body is not JSON; it sends again only after a 500, 502, 503 or 504, *)
(* raises CanvasAPIError at once on any other status of 400 or above,      *)
(* raises the error of the last response after max_retries such failures,  *)
(* and always ends.                                                        *)
C29_EndsOnFirstSuccess ==
    /\ [](/\ RequestBounded
          /\ (AnsweredLast /\ LastStatus < 400) =>
                \/ /\ request.result.k = "returned"
                   /\ request.result.value \in {PyNone, PyDict(<<>>)}
                \/ /\ request.result.k = "raised"
                   /\ request.result.type = "JSONDecodeError"
                   /\ strip(request.result.body) \notin {<<>>, <<"{}">>}
          /\ RaisesAtOnce
          /\ RaisesLast)
    /\ <>RequestEnded

C29_Witness ==
    /\ AnsweredLast
    /\ request.sent = request.max_retries
    /\ request.sent >= 2
    /\ request.statuses[1] # LastStatus
    /\ LastStatus \in RetryableStatuses
    /\ request.result = CanvasAPIError(LastStatus, <<"busy">>)


(***************************************************************************)
(* The GradeRun returned for the fetched submission.                       *)
(***************************************************************************)
Returned == preflight.pc = "returned"

Present(field) == field.j # "null"

FetchedHistory ==
    IF preflight.reply.d.submission_history.j = "list"
    THEN preflight.reply.d.submission_history.items ELSE <<>>

(* a history entry that bears the previous attempt the run reports, with  *)
(* the text the run reports                                                *)
PreviousInHistory ==
    \E k \in 1..Len(FetchedHistory) :
        LET h == FetchedHistory[k].d
        IN  /\ _as_int_or_none(h.attempt) = preflight.run.previous_submission_attempt
            /\ _as_str_or_none(h.submitted_at) = preflight.run.previous_submitted_at
            /\ ~_extract_submission_text(h).raised
            /\ PyStr(_extract_submission_text(h).text) = preflight.run.previous_submission_text

(* C30: a returned GradeRun has revision_metrics and revision_depth both   *)
(* present or both absent; they are present only when a previous attempt   *)
(* was selected from the submission history and its extracted text is not  *)
(* empty; revision_depth is then the depth label of revision_metrics; and  *)
(* time_since_previous_attempt_seconds is absent or a non-negative         *)
(* integer.                                                                *)
C30_RevisionFields ==
    Returned =>
        LET r == preflight.run
        IN  /\ Present(r.revision_metrics) <=> Present(r.revision_depth)
            /\ Present(r.revision_metrics) =>
                  /\ PreviousInHistory
                  /\ Present(r.previous_submission_text)
                  /\ r.previous_submission_text.s # <<>>
                  /\ r.revision_depth.v \in {"light", "moderate", "substantial"}
                  /\ r.revision_depth.v = _revision_depth_label(r.revision_metrics.v)
            /\ \/ ~Present(r.time_since_previous_attempt_seconds)
               \/ /\ r.time_since_previous_attempt_seconds.ty = "int"
                  /\ r.time_since_previous_attempt_seconds.v.m >= 0
                  /\ r.time_since_previous_attempt_seconds.v.m % 1000 = 0
                  /\ r.time_since_previous_attempt_seconds.v.t = 0

(* a run with metrics whose previous attempt was submitted half a second   *)
(* after the time held for the current one                                 *)
C30_Witness ==
    /\ Returned
    /\ Present(preflight.run.revision_metrics)
    /\ preflight.run.revision_depth.v = "moderate"
    /\ preflight.run.previous_submitted_at = Timestamp(1, TRUE, TRUE)
    /\ preflight.run.time_since_previous_attempt_seconds = PyInt(0)

====
